---------------------------- MODULE Spec2Model ----------------------------
(***************************************************************************)
(* A model of the change-tracking core of vscode-hg: the Resource and      *)
(* ResourceGroup family and the status reconciler groupStatuses            *)
(* (src/src/resourceGroups.ts), and the operation tracker and the          *)
(* repository Model's run protocol (model.ts, kept as src/unnamed/part_000).*)
(***************************************************************************)
EXTENDS Integers, Sequences, FiniteSets, TLC

VARIABLES
    gsIn,        \* the parameters of one groupStatuses call (IGroupStatusesParams)
    gsOut,       \* what that call returned or threw; "pending" before the call
    rgG,         \* a ResourceGroup (its id and its resources)
    rgL,         \* a resource list handed to except
    rgOut,       \* the group except returned; "pending" before the call
    tracker,     \* an OperationsImpl value (its operations mask)
    lastCall,    \* per operation: the most recent tracker call naming it
    ncalls,      \* how many tracker calls were made
    state,       \* Model._state, the lifecycle state
    groups,      \* Model._groups, the snapshot of the five groups
    operations,  \* Model._operations (its operations mask)
    task,        \* per caller: the Model.run execution it has in flight
    currentBranch,   \* Model._currentBranch
    activeBookmark,  \* Model._activeBookmark
    refs,            \* Model._refs
    syncCounts,      \* Model._syncCounts
    autoInOutState,  \* Model._autoInOutState
    useBookmarks,    \* typedConfig.useBookmarks, the configuration of the session
    counting,        \* the countIncomingOutgoingAfterDelay call in flight
    hg,              \* the repository as the external tool sees it
    args             \* per caller: the arguments of its call and what the call noted

vars == <<gsIn, gsOut, rgG, rgL, rgOut, tracker, lastCall, ncalls,
          state, groups, operations, task,
          currentBranch, activeBookmark, refs, syncCounts, autoInOutState,
          useBookmarks, counting, hg, args>>
\* what the setter of Model.state resets besides the groups
resetVars == <<currentBranch, activeBookmark, refs, syncCounts, counting>>
modelVars == <<state, groups, operations, task, resetVars, autoInOutState, useBookmarks,
               hg, args>>
gsVars == <<gsIn, gsOut>>
rgVars == <<rgG, rgL, rgOut>>
opVars == <<tracker, lastCall, ncalls>>

----------------------------------------------------------------------------
(* Bounds of the model *)

\* most records in the raw status list and the resolve list of one groupStatuses call
MaxRecords == 2
\* longest resource sequence of the group G given to except
MaxGroup == 3
\* longest resource list L given to except
MaxList == 2
\* longest sequence of start/end calls made on the operation tracker
MaxCalls == 3

----------------------------------------------------------------------------
(* Sequences helpers *)

SeqsUpTo(S, n) == UNION {[1..k -> S] : k \in 0..n}

Range(s) == {s[i] : i \in 1..Len(s)}

----------------------------------------------------------------------------
(* Status, MergeStatus, Resource *)

Status == {"MODIFIED", "ADDED", "DELETED", "UNTRACKED", "IGNORED", "MISSING",
           "RENAMED", "CLEAN"}

MergeStatus == {"NONE", "UNRESOLVED", "RESOLVED"}

\* repository-relative paths the external tool may report
Paths == {"a.txt", "b.txt"}

\* the value of an absent optional (undefined)
Undefined == "undefined"

RepositoryRoot == "/repo"

\* Uri.file(path.join(respositoryRoot, raw.path)).toString()
UriFile(p) == "file://" \o RepositoryRoot \o "/" \o p

Uris == {UriFile(p) : p \in Paths}

\* uri.fsPath of a uri made by UriFile
FsPath(uri) == CHOOSE f \in {RepositoryRoot \o "/" \o p : p \in Paths} : "file://" \o f = uri

ResourceGroupId == {"conflict", "staging", "merge", "working", "untracked"}

\* new Resource(group, uri, status, mergeStatus, renameUri?)
NewResource(group, uri, status, mergeStatus, renameUri) ==
    [resourceGroup |-> group, uri |-> uri, status |-> status,
     mergeStatus |-> mergeStatus, renameResourceUri |-> renameUri]

\* the answer of a lookup that finds no resource (undefined)
NoResource == NewResource(Undefined, Undefined, Undefined, Undefined, Undefined)

\* the getter resourceUri throws for this resource
ResourceUriThrows(r) ==
    /\ r.renameResourceUri # Undefined
    /\ r.status \notin {"MODIFIED", "RENAMED", "ADDED"}

\* a getter that forgets the rename source
ResourceUriIgnoringRename(r) == r.uri

\* get resourceUri(): the effective location of a resource
ResourceUri(r) ==
    IF r.renameResourceUri # Undefined
    THEN (IF r.status \in {"MODIFIED", "RENAMED", "ADDED"}
          THEN r.renameResourceUri
          ELSE "throw")
    ELSE r.uri

----------------------------------------------------------------------------
(* ResourceGroup: [id, resources]; the index is derived from the resources *)

\* ResourceGroup.indexResources: the set of keys of the index
IndexResources(resources) == {ResourceUri(resources[i]) : i \in 1..Len(resources)}

\* the ResourceGroup constructor (through a subclass)
NewResourceGroup(id, resources) == [id |-> id, resources |-> resources]

\* the constructor throws, because indexResources reads a throwing resourceUri
GroupConstructorThrows(resources) ==
    \E i \in 1..Len(resources) : ResourceUriThrows(resources[i])

IncludesUri(g, uri) == uri \in IndexResources(g.resources)

Includes(g, r) == IncludesUri(g, ResourceUri(r))

\* getResource: the first resource at that location, or undefined
GetResource(g, uri) ==
    LET hit(r) == ResourceUri(r) = uri
        found == SelectSeq(g.resources, hit)
    IN  IF found = <<>> THEN NoResource ELSE found[1]

\* an except that compares the resources' own locations, not their effective ones
ExceptByOwnUri(g, resources) ==
    LET excludeIndex == {resources[i].uri : i \in 1..Len(resources)}
        keep(r) == r.uri \notin excludeIndex
    IN  NewResourceGroup(g.id, SelectSeq(g.resources, keep))

\* ResourceGroup.except
GroupExcept(g, resources) ==
    LET excludeIndex == IndexResources(resources)
        keep(r) == ResourceUri(r) \notin excludeIndex
    IN  NewResourceGroup(g.id, SelectSeq(g.resources, keep))

\* an intersect that adds every input, also those whose location the group holds
IntersectAddingAll(g, resources) ==
    LET rehome(r) == NewResource(g.id, ResourceUri(r), r.status, r.mergeStatus, Undefined)
    IN  NewResourceGroup(g.id,
            g.resources \o [i \in 1..Len(resources) |-> rehome(resources[i])])

\* ResourceGroup.intersect
GroupIntersect(g, resources) ==
    LET isNew(r) == ~Includes(g, r)
        newUnique == SelectSeq(resources, isNew)
        rehome(r) == NewResource(g.id, ResourceUri(r), r.status, r.mergeStatus, Undefined)
    IN  NewResourceGroup(g.id,
            g.resources \o [i \in 1..Len(newUnique) |-> rehome(newUnique[i])])

\* createEmptyStatusGroups
CreateEmptyStatusGroups ==
    [g \in ResourceGroupId |-> NewResourceGroup(g, <<>>)]

----------------------------------------------------------------------------
(* groupStatuses *)

\* the raw status codes the switch of chooseResourcesAndGroup knows
KnownCodes == {"M", "R", "I", "?", "!", "A", "C"}

\* a switch that takes R for a missing file and ! for a deleted one
ToStatusSwappingMissing(rawStatus, renamed) ==
    CASE rawStatus = "M" -> "MODIFIED"
      [] rawStatus = "R" -> "MISSING"
      [] rawStatus = "I" -> "IGNORED"
      [] rawStatus = "?" -> "UNTRACKED"
      [] rawStatus = "!" -> "DELETED"
      [] rawStatus = "A" -> (IF renamed THEN "RENAMED" ELSE "ADDED")
      [] rawStatus = "C" -> "CLEAN"
      [] OTHER -> "throw"

\* the switch on rawStatus; "throw" stands for the HgError of the default case
ToStatus(rawStatus, renamed) ==
    CASE rawStatus = "M" -> "MODIFIED"
      [] rawStatus = "R" -> "DELETED"
      [] rawStatus = "I" -> "IGNORED"
      [] rawStatus = "?" -> "UNTRACKED"
      [] rawStatus = "!" -> "MISSING"
      [] rawStatus = "A" -> (IF renamed THEN "RENAMED" ELSE "ADDED")
      [] rawStatus = "C" -> "CLEAN"
      [] OTHER -> "throw"

ToMergeStatus(status) ==
    CASE status = "R" -> "RESOLVED"
      [] status = "U" -> "UNRESOLVED"
      [] OTHER -> "NONE"

\* staging.resources.some(resource => resource.resourceUri.toString() === uriString)
IsStaged(staging, uriString) ==
    \E i \in 1..Len(staging.resources) : ResourceUri(staging.resources[i]) = uriString

\* a chooseResourcesAndGroup that asks the previous staging group before the merge flag
ChooseStagingBeforeMerge(uriString, rawStatus, mergeStatus, renamed, isMerge, staging) ==
    LET status == ToStatus(rawStatus, renamed)
    IN  CASE status = "throw" -> [target |-> "throw", status |-> status]
          [] status \in {"IGNORED", "UNTRACKED"} -> [target |-> "untracked", status |-> status]
          [] IsStaged(staging, uriString) -> [target |-> "staging", status |-> status]
          [] isMerge /\ mergeStatus = "UNRESOLVED" -> [target |-> "conflict", status |-> status]
          [] isMerge -> [target |-> "merge", status |-> status]
          [] OTHER -> [target |-> "working", status |-> status]

\* a chooseResourcesAndGroup that asks the merge flag before the untracked statuses
ChooseMergeBeforeUntracked(uriString, rawStatus, mergeStatus, renamed, isMerge, staging) ==
    LET status == ToStatus(rawStatus, renamed)
    IN  CASE status = "throw" -> [target |-> "throw", status |-> status]
          [] isMerge /\ mergeStatus = "UNRESOLVED" -> [target |-> "conflict", status |-> status]
          [] isMerge -> [target |-> "merge", status |-> status]
          [] status \in {"IGNORED", "UNTRACKED"} -> [target |-> "untracked", status |-> status]
          [] IsStaged(staging, uriString) -> [target |-> "staging", status |-> status]
          [] OTHER -> [target |-> "working", status |-> status]

\* chooseResourcesAndGroup: the list (and group) a record goes to, and its Status
ChooseResourcesAndGroup(uriString, rawStatus, mergeStatus, renamed, isMerge, staging) ==
    LET status == ToStatus(rawStatus, renamed)
    IN  CASE status = "throw" -> [target |-> "throw", status |-> status]
          [] status \in {"IGNORED", "UNTRACKED"} -> [target |-> "untracked", status |-> status]
          [] isMerge /\ mergeStatus = "UNRESOLVED" -> [target |-> "conflict", status |-> status]
          [] isMerge -> [target |-> "merge", status |-> status]
          [] IsStaged(staging, uriString) -> [target |-> "staging", status |-> status]
          [] OTHER -> [target |-> "working", status |-> status]

\* the five resource lists, the seen uri strings, and whether the loop threw
EmptyLists ==
    [conflict |-> <<>>, merge |-> <<>>, staging |-> <<>>, working |-> <<>>,
     untracked |-> <<>>, seen |-> {}, threw |-> FALSE]

\* resolveStatuses && resolveStatuses.filter(res => res.path === raw.path)[0]
ResolveFile(p, path) ==
    LET same(res) == res.path = path
        found == IF p.resolveStatuses.defined
                 THEN SelectSeq(p.resolveStatuses.list, same) ELSE <<>>
    IN  found

\* an iteration that does not note the path it handled
FirstPassStepNotMarkingSeen(p, acc, raw) ==
    LET uriString == UriFile(raw.path)
        renameUri == IF raw.rename # Undefined THEN UriFile(raw.rename) ELSE Undefined
        resolveFile == ResolveFile(p, raw.path)
        mergeStatus == IF resolveFile # <<>> THEN ToMergeStatus(resolveFile[1].status)
                       ELSE "NONE"
        chosen == ChooseResourcesAndGroup(uriString, raw.status, mergeStatus,
                      raw.rename # Undefined, p.isMerge, p.statusGroups.staging)
    IN  IF chosen.target = "throw"
        THEN [acc EXCEPT !.threw = TRUE]
        ELSE [acc EXCEPT ![chosen.target] = Append(@,
                             NewResource(chosen.target, uriString, chosen.status,
                                         mergeStatus, renameUri))]

\* an iteration that drops a record with an unknown code instead of throwing
FirstPassStepSkippingUnknown(p, acc, raw) ==
    LET uriString == UriFile(raw.path)
        renameUri == IF raw.rename # Undefined THEN UriFile(raw.rename) ELSE Undefined
        resolveFile == ResolveFile(p, raw.path)
        mergeStatus == IF resolveFile # <<>> THEN ToMergeStatus(resolveFile[1].status)
                       ELSE "NONE"
        chosen == ChooseResourcesAndGroup(uriString, raw.status, mergeStatus,
                      raw.rename # Undefined, p.isMerge, p.statusGroups.staging)
    IN  IF chosen.target = "throw"
        THEN [acc EXCEPT !.seen = @ \cup {uriString}]
        ELSE [acc EXCEPT !.seen = @ \cup {uriString},
                         ![chosen.target] = Append(@,
                             NewResource(chosen.target, uriString, chosen.status,
                                         mergeStatus, renameUri))]

\* one iteration of the loop over fileStatuses
FirstPassStep(p, acc, raw) ==
    LET uriString == UriFile(raw.path)
        renameUri == IF raw.rename # Undefined THEN UriFile(raw.rename) ELSE Undefined
        resolveFile == ResolveFile(p, raw.path)
        mergeStatus == IF resolveFile # <<>> THEN ToMergeStatus(resolveFile[1].status)
                       ELSE "NONE"
        chosen == ChooseResourcesAndGroup(uriString, raw.status, mergeStatus,
                      raw.rename # Undefined, p.isMerge, p.statusGroups.staging)
    IN  IF chosen.target = "throw"
        THEN [acc EXCEPT !.seen = @ \cup {uriString}, !.threw = TRUE]
        ELSE [acc EXCEPT !.seen = @ \cup {uriString},
                         ![chosen.target] = Append(@,
                             NewResource(chosen.target, uriString, chosen.status,
                                         mergeStatus, renameUri))]

RECURSIVE FirstPass(_, _, _)
\* the loop over fileStatuses, from record i on; it stops at the first throw
FirstPass(p, acc, i) ==
    IF acc.threw \/ i > Len(p.fileStatuses) THEN acc
    ELSE FirstPass(p, FirstPassStep(p, acc, p.fileStatuses[i]), i + 1)

\* one iteration of the loop over resolveStatuses
\* an iteration that takes every file of the resolve list to exist on disk
SecondPassStepAssumingPresent(p, acc, raw) ==
    LET uriString == UriFile(raw.path)
        mergeStatus == ToMergeStatus(raw.status)
        chosen == ChooseResourcesAndGroup(uriString, "C", mergeStatus,
                      raw.rename # Undefined, p.isMerge, p.statusGroups.staging)
    IN  IF uriString \in acc.seen THEN acc
        ELSE IF chosen.target = "throw" THEN [acc EXCEPT !.threw = TRUE]
        ELSE [acc EXCEPT ![chosen.target] = Append(@,
                             NewResource(chosen.target, uriString, chosen.status,
                                         mergeStatus, Undefined))]

SecondPassStep(p, acc, raw) ==
    LET uriString == UriFile(raw.path)
        mergeStatus == ToMergeStatus(raw.status)
        inferredStatus == IF FsPath(uriString) \in p.existing THEN "C" ELSE "R"
        chosen == ChooseResourcesAndGroup(uriString, inferredStatus, mergeStatus,
                      raw.rename # Undefined, p.isMerge, p.statusGroups.staging)
    IN  IF uriString \in acc.seen THEN acc
        ELSE IF chosen.target = "throw" THEN [acc EXCEPT !.threw = TRUE]
        ELSE [acc EXCEPT ![chosen.target] = Append(@,
                             NewResource(chosen.target, uriString, chosen.status,
                                         mergeStatus, Undefined))]

RECURSIVE SecondPass(_, _, _)
\* the loop over resolveStatuses, from record i on
SecondPass(p, acc, i) ==
    IF acc.threw \/ ~p.resolveStatuses.defined \/ i > Len(p.resolveStatuses.list) THEN acc
    ELSE SecondPass(p, SecondPassStep(p, acc, p.resolveStatuses.list[i]), i + 1)

\* groupStatuses: the five new groups, or the error thrown
GroupStatuses(p) ==
    LET acc == SecondPass(p, FirstPass(p, EmptyLists, 1), 1)
    IN  IF acc.threw
        THEN [state |-> "threw", error |-> "Unknown rawStatus"]
        ELSE IF \E g \in ResourceGroupId : GroupConstructorThrows(acc[g])
        THEN [state |-> "threw", error |-> "Renamed resource with unexpected status"]
        ELSE [state |-> "returned",
              groups |-> [g \in ResourceGroupId |-> NewResourceGroup(g, acc[g])]]

----------------------------------------------------------------------------
(* The inputs of groupStatuses that the reconciler specification draws *)

\* raw status codes drawn: the known ones and one the switch does not know
Codes == KnownCodes \cup {"X"}

\* IFileStatus records of a raw status list
RawStatuses ==
    {r \in [path : Paths, status : Codes, rename : Paths \cup {Undefined}] :
        r.rename # r.path}

\* IFileStatus records of a resolve list
RawResolves == [path : Paths, status : {"R", "U"}, rename : {Undefined}]

RECURSIVE StagedResources(_)
\* resources at the locations S, as stage() leaves them in the staging group
StagedResources(S) ==
    IF S = {} THEN <<>>
    ELSE LET u == CHOOSE x \in S : TRUE
         IN  <<NewResource("staging", u, "MODIFIED", "NONE", Undefined)>>
             \o StagedResources(S \ {u})

\* the optional resolve lists of at most n records; the tool's resolve list names
\* each file once
ResolveLists(n) ==
    {[defined |-> FALSE, list |-> <<>>]}
    \cup {[defined |-> TRUE, list |-> l] :
             l \in {x \in SeqsUpTo(RawResolves, n) :
                       \A i, j \in 1..Len(x) : x[i].path = x[j].path => i = j}}

\* the files existsSync may be asked about: those the resolve list names
ResolvePaths(rs) == {FsPath(UriFile(rs.list[i].path)) : i \in 1..Len(rs.list)}

\* the parameters of a groupStatuses call
GsParams(fs, m, rs, st, ex) ==
    [fileStatuses |-> fs, isMerge |-> m, resolveStatuses |-> rs,
     statusGroups |-> [CreateEmptyStatusGroups EXCEPT
                          !.staging = NewResourceGroup("staging", StagedResources(st))],
     existing |-> ex]

GsIdle == [state |-> "pending"]

\* the other parts of the model at rest
RgRest == rgG = NewResourceGroup("working", <<>>) /\ rgL = <<>> /\ rgOut = GsIdle
OpRest == tracker = 0 /\ lastCall = <<>> /\ ncalls = 0
GsRest == gsIn = GsIdle /\ gsOut = GsIdle

\* the callers of the Model
Procs == {"p1", "p2"}

\* a caller with no Model.run execution in flight
IdleTask ==
    [pc |-> "idle", op |-> "none", retries |-> 0, err |-> "none", bodyOk |-> FALSE,
     refresh |-> "none", isMerge |-> FALSE, fetched |-> <<>>, fired |-> <<>>,
     startedSaw |-> "none",
     endedSaw |-> "none", toolErr |-> "none"]

\* the Model as its field initialisers leave it
\* one of the two counts of a countIncomingOutgoingAfterDelay call: where it is, the
\* delta it was given, whether the _syncCounts object its assignment holds was
\* replaced since, and what the query answered or failed with
IdleCount == [pc |-> "idle", delta |-> 0, stale |-> FALSE, answer |-> 0, err |-> Undefined]

\* no countIncomingOutgoingAfterDelay call in flight
IdleCounting ==
    [call |-> "idle", err |-> Undefined, incoming |-> IdleCount, outgoing |-> IdleCount]

\* no transaction the external tool could roll back
NoUndo == [kind |-> "none", changes |-> {}, merging |-> FALSE, staged |-> {}]

\* a repository without changes and without a commit to undo
CleanHg == [changes |-> {}, merging |-> FALSE, undo |-> NoUndo]

\* a rollback() called without dryRunDetails
NoDetails == [defined |-> FALSE, affectedFiles |-> <<>>]

\* a caller that made no call with arguments
NoArgs ==
    [resources |-> <<>>, scope |-> Undefined, details |-> NoDetails,
     followUp |-> FALSE, mustStage |-> {}, undidStaged |-> {}]

\* the repository and the callers' arguments at rest
StageRest == hg = CleanHg /\ args = [p \in Procs |-> NoArgs]

\* the fields of the Model as their initialisers leave them
FieldsInit ==
    /\ state = "Uninitialized"
    /\ groups = CreateEmptyStatusGroups
    /\ currentBranch = Undefined
    /\ activeBookmark = Undefined
    /\ refs = <<>>
    /\ syncCounts = [incoming |-> 0, outgoing |-> 0]
    /\ autoInOutState = [status |-> "Disabled", error |-> Undefined]
    /\ counting = IdleCounting

ModelRest ==
    /\ FieldsInit
    /\ StageRest
    /\ useBookmarks = FALSE
    /\ operations = 0
    /\ task = [p \in Procs |-> IdleTask]

GsInit ==
    /\ \E fs \in SeqsUpTo(RawStatuses, MaxRecords), m \in BOOLEAN, st \in SUBSET Uris :
         \E rs \in ResolveLists(MaxRecords - Len(fs)) :
           \E ex \in SUBSET ResolvePaths(rs) :
             gsIn = GsParams(fs, m, rs, st, ex)
    /\ gsOut = GsIdle
    /\ RgRest /\ OpRest /\ ModelRest

\* the call groupStatuses(gsIn)
GsCall ==
    /\ gsOut.state = "pending"
    /\ gsOut' = GroupStatuses(gsIn)
    /\ UNCHANGED <<gsIn, rgVars, opVars, modelVars>>

GsNext == GsCall

SpecGS == GsInit /\ [][GsNext]_vars

----------------------------------------------------------------------------
(* Properties of groupStatuses *)

\* the effective locations a returned group holds
Locations(g) == IndexResources(g.resources)

\* the effective location of the Resource built for a raw status record
RecordLocation(raw) == IF raw.rename # Undefined THEN UriFile(raw.rename) ELSE UriFile(raw.path)

\* the records of the raw status list whose code is not untracked or ignored
TrackedRecords(p) ==
    {i \in 1..Len(p.fileStatuses) : p.fileStatuses[i].status \notin {"?", "I"}}

\* the merge status of raw status record i: that of the first resolve record of its path
RecordMergeStatus(p, i) ==
    LET found == ResolveFile(p, p.fileStatuses[i].path)
    IN  IF found = <<>> THEN "NONE" ELSE ToMergeStatus(found[1].status)

\* group g holds a resource built for raw status record i
HoldsRecord(g, p, i) ==
    \E k \in 1..Len(g.resources) :
        /\ g.resources[k].uri = UriFile(p.fileStatuses[i].path)
        /\ g.resources[k].status = ToStatus(p.fileStatuses[i].status,
                                            p.fileStatuses[i].rename # Undefined)
        /\ g.resources[k].renameResourceUri =
              (IF p.fileStatuses[i].rename # Undefined
               THEN UriFile(p.fileStatuses[i].rename) ELSE Undefined)

GsReturned == gsOut.state = "returned"

(* C1: every file location (effective location) is held by at most one of
   the returned groups conflict, merge, staging and working; only the
   untracked group may share a location with one of them. *)
C1_PartitionByLocation ==
    GsReturned =>
        \A g1, g2 \in ResourceGroupId \ {"untracked"} :
            g1 # g2 => Locations(gsOut.groups[g1]) \cap Locations(gsOut.groups[g2]) = {}

(* C2: not mid-merge, a file of the previous staging group that the raw
   status list reports with a status other than untracked/ignored (with or
   without a rename source) is in the returned staging group and not in the
   returned working group. *)
C2_StagingPreserved ==
    (GsReturned /\ ~gsIn.isMerge) =>
        \A i \in TrackedRecords(gsIn) :
            RecordLocation(gsIn.fileStatuses[i]) \in Locations(gsIn.statusGroups.staging)
            => /\ RecordLocation(gsIn.fileStatuses[i]) \in Locations(gsOut.groups.staging)
               /\ RecordLocation(gsIn.fileStatuses[i]) \notin Locations(gsOut.groups.working)

(* C3: mid-merge, whenever groupStatuses returns, every raw status record
   that is not untracked/ignored is in the conflict group if its merge status
   is UNRESOLVED and in the merge group otherwise, and never in the other of
   the two; the returned staging and working groups are empty. *)
C3_MergePrecedence ==
    (GsReturned /\ gsIn.isMerge) =>
        /\ gsOut.groups.staging.resources = <<>>
        /\ gsOut.groups.working.resources = <<>>
        /\ \A i \in TrackedRecords(gsIn) :
              IF RecordMergeStatus(gsIn, i) = "UNRESOLVED"
              THEN /\ HoldsRecord(gsOut.groups.conflict, gsIn, i)
                   /\ ~HoldsRecord(gsOut.groups.merge, gsIn, i)
              ELSE /\ HoldsRecord(gsOut.groups.merge, gsIn, i)
                   /\ ~HoldsRecord(gsOut.groups.conflict, gsIn, i)

\* a previously staged, unresolved file was reconciled mid-merge into the conflict group
C3_Witness ==
    /\ GsReturned /\ gsIn.isMerge
    /\ \E i \in TrackedRecords(gsIn) :
          /\ IsStaged(gsIn.statusGroups.staging, UriFile(gsIn.fileStatuses[i].path))
          /\ RecordMergeStatus(gsIn, i) = "UNRESOLVED"
          /\ HoldsRecord(gsOut.groups.conflict, gsIn, i)

(* C4: whenever groupStatuses returns, every raw status record with code
   '?' or 'I' is in the untracked group, and no other group holds a resource
   with status UNTRACKED or IGNORED - whatever the merge flag, the resolve
   list and the previous staging group are. *)
C4_UntrackedPrecedence ==
    GsReturned =>
        /\ \A i \in 1..Len(gsIn.fileStatuses) :
              gsIn.fileStatuses[i].status \in {"?", "I"}
              => HoldsRecord(gsOut.groups.untracked, gsIn, i)
        /\ \A g \in ResourceGroupId \ {"untracked"} :
              \A k \in 1..Len(gsOut.groups[g].resources) :
                  gsOut.groups[g].resources[k].status \notin {"UNTRACKED", "IGNORED"}

\* mid-merge, a previously staged file with an unresolved resolve record and code '?'
\* was reconciled into the untracked group
C4_Witness ==
    /\ GsReturned /\ gsIn.isMerge
    /\ \E i \in 1..Len(gsIn.fileStatuses) :
          /\ gsIn.fileStatuses[i].status = "?"
          /\ IsStaged(gsIn.statusGroups.staging, UriFile(gsIn.fileStatuses[i].path))
          /\ RecordMergeStatus(gsIn, i) = "UNRESOLVED"
          /\ HoldsRecord(gsOut.groups.untracked, gsIn, i)

\* raw status record i carries a rename source and a code other than M or A
IsBadRename(raw) == raw.rename # Undefined /\ raw.status \notin {"M", "A"}

(* C19: a Resource with a rename source and status MODIFIED, RENAMED or ADDED
   is found in its group at the rename source, a Resource without a rename
   source at its own location; and a raw status record with a rename source
   and a code other than M or A makes groupStatuses fail, so no returned group
   holds such a Resource. *)
C19_RenameResolution ==
    /\ (gsOut.state # "pending"
         /\ \E i \in 1..Len(gsIn.fileStatuses) : IsBadRename(gsIn.fileStatuses[i]))
        => gsOut.state = "threw"
    /\ GsReturned =>
         \A g \in ResourceGroupId :
            /\ \A i \in 1..Len(gsIn.fileStatuses) :
                  HoldsRecord(gsOut.groups[g], gsIn, i)
                  => LET raw == gsIn.fileStatuses[i]
                         at == IF raw.rename # Undefined THEN UriFile(raw.rename)
                               ELSE UriFile(raw.path)
                     IN  /\ IncludesUri(gsOut.groups[g], at)
                         /\ GetResource(gsOut.groups[g], at) # NoResource
            /\ \A k \in 1..Len(gsOut.groups[g].resources) :
                  LET r == gsOut.groups[g].resources[k]
                  IN  /\ r.renameResourceUri # Undefined
                          => r.status \in {"MODIFIED", "RENAMED", "ADDED"}
                      /\ GetResource(gsOut.groups[g],
                                     IF r.renameResourceUri # Undefined
                                     THEN r.renameResourceUri ELSE r.uri) # NoResource

\* a record added with a rename source was reconciled into the working group, where
\* it is found at the rename source and not at its own path
C19_Witness ==
    /\ GsReturned
    /\ \E i \in 1..Len(gsIn.fileStatuses) :
          /\ gsIn.fileStatuses[i].status = "A"
          /\ gsIn.fileStatuses[i].rename # Undefined
          /\ HoldsRecord(gsOut.groups.working, gsIn, i)
          /\ IncludesUri(gsOut.groups.working, UriFile(gsIn.fileStatuses[i].rename))
          /\ ~IncludesUri(gsOut.groups.working, UriFile(gsIn.fileStatuses[i].path))


\* every Resource of the returned groups
AllResources(gs) ==
    UNION {{gs[g].resources[k] : k \in 1..Len(gs[g].resources)} : g \in ResourceGroupId}

\* the number of Resources the returned groups hold
CountResources(gs) ==
    Len(gs.conflict.resources) + Len(gs.merge.resources) + Len(gs.staging.resources)
    + Len(gs.working.resources) + Len(gs.untracked.resources)

\* the raw status list of scenario C: b.txt added, with rename a.txt
ScenarioC == <<[path |-> "b.txt", status |-> "A", rename |-> "a.txt"]>>

\* C21: for the raw status list [b.txt A, rename a.txt], not mid-merge, groupStatuses
\* emits exactly one Resource, with status RENAMED, whose effective location is the
\* new location b.txt
C21_ScenarioC ==
    (/\ GsReturned
     /\ gsIn.fileStatuses = ScenarioC
     /\ ~gsIn.isMerge
     /\ Len(gsIn.resolveStatuses.list) = 0)
    => /\ CountResources(gsOut.groups) = 1
       /\ \A r \in AllResources(gsOut.groups) :
             r.status = "RENAMED" /\ ResourceUri(r) = UriFile("b.txt")


\* the Status the specification gives a raw status code
StatusTable ==
    [M |-> "MODIFIED", R |-> "DELETED", I |-> "IGNORED", A |-> "ADDED", C |-> "CLEAN"]

\* the Status expected for a raw status record
ExpectedStatus(raw) ==
    CASE raw.status = "?" -> "UNTRACKED"
      [] raw.status = "!" -> "MISSING"
      [] raw.status = "A" /\ raw.rename # Undefined -> "RENAMED"
      [] OTHER -> StatusTable[raw.status]

\* the MergeStatus expected for a path: that of its resolve-list entry
ExpectedMergeStatus(p, path) ==
    IF p.resolveStatuses.defined
       /\ \E j \in 1..Len(p.resolveStatuses.list) : p.resolveStatuses.list[j].path = path
    THEN LET j == CHOOSE j \in 1..Len(p.resolveStatuses.list) :
                     p.resolveStatuses.list[j].path = path
             code == p.resolveStatuses.list[j].status
         IN  IF code = "R" THEN "RESOLVED" ELSE IF code = "U" THEN "UNRESOLVED" ELSE "NONE"
    ELSE "NONE"

\* Resource r was built for raw status record raw as the specification maps it
MapsRecord(r, p, raw) ==
    /\ r.uri = UriFile(raw.path)
    /\ r.status = ExpectedStatus(raw)
    /\ r.mergeStatus = ExpectedMergeStatus(p, raw.path)

\* C22: raw status codes map to Status as M, R, I, ?, !, C to MODIFIED, DELETED,
\* IGNORED, UNTRACKED, MISSING, CLEAN and A to RENAMED with a rename source and ADDED
\* without; the merge status of a record is that of the resolve-list entry of its
\* path, R to RESOLVED, U to UNRESOLVED, NONE otherwise
C22_StatusMapping ==
    GsReturned =>
        /\ \A i \in 1..Len(gsIn.fileStatuses) :
              \E r \in AllResources(gsOut.groups) : MapsRecord(r, gsIn, gsIn.fileStatuses[i])
        /\ \A r \in AllResources(gsOut.groups) :
              (\E i \in 1..Len(gsIn.fileStatuses) : r.uri = UriFile(gsIn.fileStatuses[i].path))
              => \E i \in 1..Len(gsIn.fileStatuses) : MapsRecord(r, gsIn, gsIn.fileStatuses[i])

\* a record with code R whose resolve-list entry has code R was reconciled: the
\* Resource is DELETED and RESOLVED
C22_Witness ==
    /\ GsReturned
    /\ \E i \in 1..Len(gsIn.fileStatuses) :
          /\ gsIn.fileStatuses[i].status = "R"
          /\ \E j \in 1..Len(gsIn.resolveStatuses.list) :
                /\ gsIn.resolveStatuses.list[j].path = gsIn.fileStatuses[i].path
                /\ gsIn.resolveStatuses.list[j].status = "R"
          /\ \E r \in AllResources(gsOut.groups) :
                /\ r.uri = UriFile(gsIn.fileStatuses[i].path)
                /\ r.status = "DELETED"
                /\ r.mergeStatus = "RESOLVED"


\* the positions (group, index) of the returned groups that hold a Resource at uri
PositionsAt(gs, uri) ==
    {pos \in ResourceGroupId \X (1..MaxGroup + MaxRecords) :
        /\ pos[2] <= Len(gs[pos[1]].resources)
        /\ gs[pos[1]].resources[pos[2]].uri = uri}

\* the paths the raw status list names
StatusPaths(p) == {p.fileStatuses[i].path : i \in 1..Len(p.fileStatuses)}

\* the group the routing rules give a tracked file
ExpectedGroup(p, uri, mergeStatus) ==
    IF p.isMerge
    THEN IF mergeStatus = "UNRESOLVED" THEN "conflict" ELSE "merge"
    ELSE IF uri \in Locations(p.statusGroups.staging) THEN "staging" ELSE "working"

\* C23: every path of the resolve list that the raw status list does not name yields
\* exactly one Resource, CLEAN if the file exists on disk and DELETED otherwise, with
\* the merge status of its resolve entry, in conflict when mid-merge and unresolved,
\* in merge when mid-merge otherwise, and not mid-merge in staging if previously
\* staged and in working if not
C23_SecondPass ==
    GsReturned =>
        \A j \in 1..Len(gsIn.resolveStatuses.list) :
            LET raw == gsIn.resolveStatuses.list[j]
                uri == UriFile(raw.path)
            IN  (gsIn.resolveStatuses.defined /\ raw.path \notin StatusPaths(gsIn))
                => /\ Cardinality(PositionsAt(gsOut.groups, uri)) = 1
                   /\ \A pos \in PositionsAt(gsOut.groups, uri) :
                         LET r == gsOut.groups[pos[1]].resources[pos[2]]
                         IN  /\ r.status = IF FsPath(uri) \in gsIn.existing
                                           THEN "CLEAN" ELSE "DELETED"
                             /\ r.mergeStatus = ExpectedMergeStatus(gsIn, raw.path)
                             /\ pos[1] = ExpectedGroup(gsIn, uri, r.mergeStatus)
                             /\ r.resourceGroup = pos[1]

\* mid-merge, an unresolved file of the resolve list that the raw status list does
\* not name and that is gone from disk was reconciled into the conflict group
C23_Witness ==
    /\ GsReturned
    /\ gsIn.isMerge
    /\ \E j \in 1..Len(gsIn.resolveStatuses.list) :
          LET raw == gsIn.resolveStatuses.list[j]
          IN  /\ raw.status = "U"
              /\ raw.path \notin StatusPaths(gsIn)
              /\ FsPath(UriFile(raw.path)) \notin gsIn.existing
              /\ \E k \in 1..Len(gsOut.groups.conflict.resources) :
                    /\ gsOut.groups.conflict.resources[k].uri = UriFile(raw.path)
                    /\ gsOut.groups.conflict.resources[k].status = "DELETED"


\* the raw status list names path once, at record i, and the resolve list names it
InBothLists(p, i) ==
    /\ p.resolveStatuses.defined
    /\ \A k \in 1..Len(p.fileStatuses) : p.fileStatuses[k].path = p.fileStatuses[i].path => k = i
    /\ \E j \in 1..Len(p.resolveStatuses.list) :
          p.resolveStatuses.list[j].path = p.fileStatuses[i].path

\* C24: a file that the raw status list and the resolve list both name is processed
\* once: the returned groups hold exactly one Resource for it, with the status of its
\* raw status record and the merge status of its resolve record
C24_ProcessedOnce ==
    GsReturned =>
        \A i \in 1..Len(gsIn.fileStatuses) :
            InBothLists(gsIn, i) =>
                LET raw == gsIn.fileStatuses[i]
                    at == PositionsAt(gsOut.groups, UriFile(raw.path))
                IN  /\ Cardinality(at) = 1
                    /\ \A pos \in at :
                          MapsRecord(gsOut.groups[pos[1]].resources[pos[2]], gsIn, raw)

\* a modified file that the resolve list names as unresolved was reconciled mid-merge
\* into the conflict group, once
C24_Witness ==
    /\ GsReturned
    /\ gsIn.isMerge
    /\ \E i \in 1..Len(gsIn.fileStatuses) :
          /\ InBothLists(gsIn, i)
          /\ gsIn.fileStatuses[i].status = "M"
          /\ ExpectedMergeStatus(gsIn, gsIn.fileStatuses[i].path) = "UNRESOLVED"
          /\ Cardinality(PositionsAt(gsOut.groups, UriFile(gsIn.fileStatuses[i].path))) = 1
          /\ Len(gsOut.groups.conflict.resources) = 1

\* the refresh that follows the one that returned gsOut, the external tool
\* reporting the same summary, status records and resolve list
RefreshedAgain == GroupStatuses([gsIn EXCEPT !.statusGroups = gsOut.groups])

(* C34: refresh is idempotent on the partition: a second refresh for which the
   external tool reports what it reported for the first leaves in each of the
   five groups the file locations the first left there, also when a staged
   file is reported with a rename source. *)
C34_RefreshIdempotent ==
    GsReturned =>
        /\ RefreshedAgain.state = "returned"
        /\ \A g \in ResourceGroupId :
              Locations(RefreshedAgain.groups[g]) = Locations(gsOut.groups[g])

(* C35: a refresh stages nothing by itself: every effective location of the
   staging group groupStatuses returns is a location of the previous staging
   group, so the set of staged locations stays equal or shrinks. *)
C35_RefreshStagesNothing ==
    GsReturned =>
        Locations(gsOut.groups.staging) \subseteq Locations(gsIn.statusGroups.staging)

----------------------------------------------------------------------------
(* ResourceGroup.except as a function of a group G and a resource list L *)

\* the resources drawn for G and L: plain and renamed ones, which all have a location
RgResources ==
    {NewResource("working", u, "MODIFIED", "NONE", Undefined) : u \in Uris}
    \cup {NewResource("working", u, "DELETED", "RESOLVED", Undefined) : u \in Uris}
    \cup {NewResource("working", u, "RENAMED", "NONE", CHOOSE v \in Uris : v # u) : u \in Uris}

RgInit ==
    /\ \E rs \in SeqsUpTo(RgResources, MaxGroup), l \in SeqsUpTo(RgResources, MaxList) :
          /\ rgG = NewResourceGroup("working", rs)
          /\ rgL = l
    /\ rgOut = GsIdle
    /\ GsRest /\ OpRest /\ ModelRest

\* the call rgG.except(rgL)
RgExcept ==
    /\ rgOut.state = "pending"
    /\ rgOut' = [state |-> "returned", group |-> GroupExcept(rgG, rgL)]
    /\ UNCHANGED <<rgG, rgL, gsVars, opVars, modelVars>>

\* the call rgG.intersect(rgL)
RgIntersect ==
    /\ rgOut.state = "pending"
    /\ rgOut' = [state |-> "intersected", group |-> GroupIntersect(rgG, rgL)]
    /\ UNCHANGED <<rgG, rgL, gsVars, opVars, modelVars>>

RgNext == RgExcept \/ RgIntersect

SpecRG == RgInit /\ [][RgNext]_vars

RECURSIVE IsRestOf(_, _, _)
\* out is G with exactly the resources at the locations excluded taken out, in G's order
IsRestOf(out, G, excluded) ==
    IF G = <<>> THEN out = <<>>
    ELSE IF ResourceUri(Head(G)) \in excluded THEN IsRestOf(out, Tail(G), excluded)
    ELSE /\ out # <<>>
         /\ Head(out) = Head(G)
         /\ IsRestOf(Tail(out), Tail(G), excluded)

(* C10: G.except(L) holds no resource at the location of a resource of L,
   holds every resource of G whose location is not one of L's, in G's order,
   and G itself is left as it was. *)
C10_ExceptLaw ==
    /\ [](rgOut.state = "returned" =>
            /\ \A k \in 1..Len(rgOut.group.resources), j \in 1..Len(rgL) :
                  ResourceUri(rgOut.group.resources[k]) # ResourceUri(rgL[j])
            /\ IsRestOf(rgOut.group.resources, rgG.resources,
                        {ResourceUri(rgL[j]) : j \in 1..Len(rgL)})
            /\ rgOut.group.id = rgG.id)
    /\ [][rgG' = rgG]_vars

\* except took a renamed resource, named in L by its effective location, out of a
\* group of three and kept the other two
C10_Witness ==
    /\ rgOut.state = "returned"
    /\ Len(rgG.resources) = 3 /\ Len(rgOut.group.resources) = 2
    /\ \E i \in 1..3 : /\ rgG.resources[i].renameResourceUri # Undefined
                       /\ \E j \in 1..Len(rgL) : /\ ResourceUri(rgL[j]) = ResourceUri(rgG.resources[i])
                                                 /\ rgL[j].uri # rgG.resources[i].uri

\* resource r of the result is input l re-homed: at l's location, with l's status
\* and merge status
IsRehomed(r, l) ==
    /\ ResourceUri(r) = ResourceUri(l)
    /\ r.status = l.status
    /\ r.mergeStatus = l.mergeStatus

(* C11: G.intersect(L) holds every resource of G unchanged, in place (an
   input at a location G holds replaces nothing and adds nothing), holds a
   resource for every location of L that G does not hold, with that input's
   status and merge status, holds nothing else, and G itself is left as it
   was. *)
C11_IntersectLaw ==
    /\ [](rgOut.state = "intersected" =>
            LET out == rgOut.group.resources
                n == Len(rgG.resources)
            IN  /\ Len(out) >= n
                /\ SubSeq(out, 1, n) = rgG.resources
                /\ \A j \in 1..Len(rgL) :
                      ~Includes(rgG, rgL[j])
                      => \E k \in (n + 1)..Len(out) : IsRehomed(out[k], rgL[j])
                /\ \A k \in (n + 1)..Len(out) :
                      /\ ~IncludesUri(rgG, ResourceUri(out[k]))
                      /\ \E j \in 1..Len(rgL) : IsRehomed(out[k], rgL[j])
                /\ rgOut.group.id = rgG.id)
    /\ [][rgG' = rgG]_vars

\* intersect kept a group of two, left out an input at a location the group holds
\* (with another status) and added a resolved, deleted input at a new location
C11_Witness ==
    /\ rgOut.state = "intersected"
    /\ Len(rgG.resources) = 2 /\ Len(rgL) = 2 /\ Len(rgOut.group.resources) = 3
    /\ \E j \in 1..2 : /\ Includes(rgG, rgL[j])
                       /\ GetResource(rgG, ResourceUri(rgL[j])).status # rgL[j].status
    /\ rgOut.group.resources[3].mergeStatus = "RESOLVED"

----------------------------------------------------------------------------
(* Operation and OperationsImpl *)

\* 1 << k
Shl(k) == 2 ^ k

\* the enum with RollbackDryRun on the bit of Rollback
OperationSharingABit ==
    [Status |-> Shl(0), Add |-> Shl(1), RevertFiles |-> Shl(2), Commit |-> Shl(3),
     Clean |-> Shl(4), Branch |-> Shl(5), Update |-> Shl(6), Rollback |-> Shl(7),
     RollbackDryRun |-> Shl(7), Pull |-> Shl(9), Push |-> Shl(10), Sync |-> Shl(11),
     Init |-> Shl(12), Show |-> Shl(13), Stage |-> Shl(14), GetCommitTemplate |-> Shl(15),
     Resolve |-> Shl(17), Unresolve |-> Shl(18), Parents |-> Shl(19), Forget |-> Shl(20),
     Merge |-> Shl(21), AddRemove |-> Shl(22), SetBookmark |-> Shl(23),
     RemoveBookmark |-> Shl(24), Annotate |-> Shl(25)]

\* enum Operation
Operation ==
    [Status |-> Shl(0), Add |-> Shl(1), RevertFiles |-> Shl(2), Commit |-> Shl(3),
     Clean |-> Shl(4), Branch |-> Shl(5), Update |-> Shl(6), Rollback |-> Shl(7),
     RollbackDryRun |-> Shl(8), Pull |-> Shl(9), Push |-> Shl(10), Sync |-> Shl(11),
     Init |-> Shl(12), Show |-> Shl(13), Stage |-> Shl(14), GetCommitTemplate |-> Shl(15),
     Resolve |-> Shl(17), Unresolve |-> Shl(18), Parents |-> Shl(19), Forget |-> Shl(20),
     Merge |-> Shl(21), AddRemove |-> Shl(22), SetBookmark |-> Shl(23),
     RemoveBookmark |-> Shl(24), Annotate |-> Shl(25)]

OperationNames == DOMAIN Operation

RECURSIVE BitAnd(_, _)
\* x & y on two's complement integers
BitAnd(x, y) ==
    IF x = 0 \/ y = 0 THEN 0
    ELSE IF x = -1 THEN y
    ELSE IF y = -1 THEN x
    ELSE (x % 2) * (y % 2) + 2 * BitAnd(x \div 2, y \div 2)

\* ~x
BitNot(x) == -x - 1

\* x | y, by De Morgan
BitOr(x, y) == BitNot(BitAnd(BitNot(x), BitNot(y)))

\* OperationsImpl.start
Start(mask, operation) == BitOr(mask, operation)

\* OperationsImpl.end
End(mask, operation) == BitAnd(mask, BitNot(operation))

\* OperationsImpl.isRunning
IsRunning(mask, operation) == BitAnd(mask, operation) # 0

\* OperationsImpl.isIdle
IsIdle(mask) == mask = 0

OpInit ==
    /\ tracker = 0
    /\ lastCall = [op \in OperationNames |-> "none"]
    /\ ncalls = 0
    /\ GsRest /\ RgRest /\ ModelRest

\* tracker = tracker.start(op)
TrackerStart(op) ==
    /\ ncalls < MaxCalls
    /\ tracker' = Start(tracker, Operation[op])
    /\ lastCall' = [lastCall EXCEPT ![op] = "start"]
    /\ ncalls' = ncalls + 1
    /\ UNCHANGED <<gsVars, rgVars, modelVars>>

\* tracker = tracker.end(op)
TrackerEnd(op) ==
    /\ ncalls < MaxCalls
    /\ tracker' = End(tracker, Operation[op])
    /\ lastCall' = [lastCall EXCEPT ![op] = "end"]
    /\ ncalls' = ncalls + 1
    /\ UNCHANGED <<gsVars, rgVars, modelVars>>

\* the operations the tracker specification starts and ends
TrackedOperations == {"Status", "Rollback", "RollbackDryRun", "Show", "Stage", "Push"}

OpNext == \E op \in TrackedOperations : TrackerStart(op) \/ TrackerEnd(op)

SpecOps == OpInit /\ [][OpNext]_vars

\* t2 answers isIdle and every isRunning as t1 does
SameAnswers(t1, t2) ==
    /\ IsIdle(t1) = IsIdle(t2)
    /\ \A x \in OperationNames : IsRunning(t1, Operation[x]) = IsRunning(t2, Operation[x])

(* C8: for every tracker value and every operation op,
   start(op).end(op) answers isIdle and isRunning exactly as the tracker does. *)
C8_StartEndRestoresAlways ==
    \A op \in OperationNames :
        SameAnswers(tracker, End(Start(tracker, Operation[op]), Operation[op]))

(* C9: isRunning(op) is true exactly when the most recent call naming op was
   start(op); isIdle() is true exactly when no operation is running; start(a)
   and end(a) leave isRunning(b) as it was for every other operation b. *)
C9_TrackerAnswers ==
    /\ \A op \in OperationNames :
          IsRunning(tracker, Operation[op]) <=> lastCall[op] = "start"
    /\ IsIdle(tracker) <=> \A op \in OperationNames : ~IsRunning(tracker, Operation[op])
    /\ \A a, b \in OperationNames :
          a # b => /\ IsRunning(Start(tracker, Operation[a]), Operation[b])
                        = IsRunning(tracker, Operation[b])
                   /\ IsRunning(End(tracker, Operation[a]), Operation[b])
                        = IsRunning(tracker, Operation[b])

\* after start, end, start of Rollback-like calls: one operation ended, another running
C9_Witness ==
    /\ ncalls = 3
    /\ lastCall.Rollback = "end"
    /\ lastCall.RollbackDryRun = "start"
    /\ IsRunning(tracker, Operation.RollbackDryRun)
    /\ ~IsRunning(tracker, Operation.Rollback)

----------------------------------------------------------------------------
(* The Model: lifecycle state, group snapshot, and the run protocol *)

\* whenUnlocked gives up after this many retries
MaxRetries == 10

\* the operations callers run through Model.run
ModelOperations == {"Status", "Add", "Show"}

\* HgErrorCodes an external call may fail with
ErrorKinds == {"NotAnHgRepository", "Other"}

\* isReadOnly
IsReadOnly(operation) ==
    CASE operation = Operation.Show -> TRUE
      [] operation = Operation.GetCommitTemplate -> TRUE
      [] OTHER -> FALSE

\* the raw status lists the external tool answers getStatus() with
ToolStatusLists ==
    { <<>>,
      <<[path |-> "a.txt", status |-> "M", rename |-> Undefined]>>,
      <<[path |-> "a.txt", status |-> "M", rename |-> Undefined],
        [path |-> "b.txt", status |-> "X", rename |-> Undefined]>>,
      <<[path |-> "a.txt", status |-> "M", rename |-> Undefined],
        [path |-> "b.txt", status |-> "?", rename |-> Undefined]>> }

\* the resolve lists the external tool answers getResolveList() with
ToolResolveLists ==
    { <<>>, <<[path |-> "a.txt", status |-> "U", rename |-> Undefined]>> }

\* a count that awaits its query holds the _syncCounts object it will assign to; the
\* setter of Model.state replaces that object
Orphaned(c) == IF c.pc = "query" THEN [c EXCEPT !.stale = TRUE] ELSE c

\* a setter that forgets the sync counts
SetStateKeepingCounts(newState) ==
    /\ state' = newState
    /\ currentBranch' = Undefined
    /\ activeBookmark' = Undefined
    /\ refs' = <<>>
    /\ UNCHANGED <<syncCounts, counting>>
    /\ groups' = CreateEmptyStatusGroups

\* the setter of Model.state: the state is set and the refs, counts and groups are reset
SetState(newState) ==
    /\ state' = newState
    /\ currentBranch' = Undefined
    /\ activeBookmark' = Undefined
    /\ refs' = <<>>
    /\ syncCounts' = [incoming |-> 0, outgoing |-> 0]
    /\ counting' = [counting EXCEPT !.incoming = Orphaned(@), !.outgoing = Orphaned(@)]
    /\ groups' = CreateEmptyStatusGroups

\* what an observer of a notification about op sees in the operations mask
Saw(mask, op) == IF IsRunning(mask, Operation[op]) THEN "running" ELSE "notRunning"

\* onDidRunOperation fired: every whenIdle waiting for the event is resumed
Woken(t) == IF t.pc = "waitEvent" THEN [t EXCEPT !.pc = "recheck"] ELSE t

\* a finally block that marks the operation ended only when the run did not fail
SettleOnSuccessOnly(p, err, bodyOk, refreshed) ==
    IF err = "none"
    THEN /\ operations' = End(operations, Operation[task[p].op])
         /\ task' = [q \in Procs |->
                        IF q = p
                        THEN [task[p] EXCEPT !.pc = "done", !.err = err, !.bodyOk = bodyOk,
                                             !.refresh = refreshed,
                                             !.fired = Append(@, "onDidRunOperation"),
                                             !.endedSaw = Saw(operations', task[p].op)]
                        ELSE Woken(task[q])]
    ELSE /\ operations' = operations
         /\ task' = [task EXCEPT ![p].pc = "done", ![p].err = err, ![p].bodyOk = bodyOk,
                                 ![p].refresh = refreshed]

\* the finally block of run: the operation is ended and onDidRunOperation fired; the
\* promise of run settles with err
Settle(p, err, bodyOk, refreshed) ==
    /\ operations' = End(operations, Operation[task[p].op])
    /\ task' = [q \in Procs |->
                   IF q = p
                   THEN [task[p] EXCEPT !.pc = "done", !.err = err, !.bodyOk = bodyOk,
                                        !.refresh = refreshed,
                                        !.fired = Append(@, "onDidRunOperation"),
                                        !.endedSaw = Saw(operations', task[p].op)]
                   ELSE Woken(task[q])]

\* the catch block of run
Catch(err) ==
    IF err = "NotAnHgRepository"
    THEN SetState("NotAnHgRepository")
    ELSE UNCHANGED <<state, groups, resetVars>>

\* show(): whenIdle is entered; it returns at once when the mask is idle and
\* waits for onDidRunOperation otherwise
CallShow(p) ==
    /\ task[p].pc = "idle"
    /\ task' = [task EXCEPT ![p].pc = IF IsIdle(operations) THEN "showReady"
                                      ELSE "waitEvent"]
    /\ UNCHANGED <<state, groups, operations, resetVars>>

\* a whenIdle that returns as soon as it is resumed, without asking isIdle again
WhenIdleResumeWithoutAsking(p) ==
    /\ task[p].pc = "recheck"
    /\ task' = [task EXCEPT ![p].pc = "showReady"]
    /\ UNCHANGED <<state, groups, operations, resetVars>>

\* whenIdle: resumed by onDidRunOperation, the loop asks isIdle again
WhenIdleRecheck(p) ==
    /\ task[p].pc = "recheck"
    /\ task' = [task EXCEPT ![p].pc = IF IsIdle(operations) THEN "showReady"
                                      ELSE "waitEvent"]
    /\ UNCHANGED <<state, groups, operations, resetVars>>

\* the call coalescing of the methods of the Model: a call of a method that has a
\* call in flight collapses into that call and answers its promise
Collapses(p, op) == task[p].op = op /\ task[p].pc \notin {"idle", "done"}

\* the methods of the Model that are not decorated with throttle
Unthrottled == {"Show"}

\* a call by caller p of the method that runs op finds a call of that method in
\* flight and collapses into it: no second run is started
CollapsesInto(p, op) ==
    op \notin Unthrottled /\ \E q \in Procs \ {p} : Collapses(q, op)

\* a run that fires onRunOperation before it starts the operation
RunStartFiringFirst(p, op) ==
    /\ task[p].pc = IF op = "Show" THEN "showReady" ELSE "idle"
    /\ ~CollapsesInto(p, op)
    /\ operations' = Start(operations, Operation[op])
    /\ task' = [task EXCEPT ![p].op = op,
                            ![p].startedSaw = Saw(operations, op),
                            ![p].fired = <<"onRunOperation">>,
                            ![p].pc = IF state = "Idle" THEN "unlock" ELSE "root"]
    /\ UNCHANGED <<state, groups, resetVars>>

\* run(op, body): the operation is started, onRunOperation fired, and
\* assertIdleState entered; show() gets here after whenIdle, a throttled method
\* when no call of it is in flight
RunStart(p, op) ==
    /\ task[p].pc = IF op = "Show" THEN "showReady" ELSE "idle"
    /\ ~CollapsesInto(p, op)
    /\ operations' = Start(operations, Operation[op])
    /\ task' = [task EXCEPT ![p].op = op,
                            ![p].startedSaw = Saw(operations', op),
                            ![p].fired = <<"onRunOperation">>,
                            ![p].pc = IF state = "Idle" THEN "unlock" ELSE "root"]
    /\ UNCHANGED <<state, groups, resetVars>>

\* assertIdleState: getRepositoryRoot answered, the state becomes Idle
RootOk(p) ==
    /\ task[p].pc = "root"
    /\ SetState("Idle")
    /\ task' = [task EXCEPT ![p].pc = "unlock"]
    /\ UNCHANGED operations

\* assertIdleState: getRepositoryRoot failed; catch and finally of run
RootFail(p, kind) ==
    /\ task[p].pc = "root"
    /\ Catch(kind)
    /\ Settle(p, kind, FALSE, "none")

\* whenUnlocked: the lock marker exists, one more timed wait
LockBusy(p) ==
    /\ task[p].pc = "unlock"
    /\ task[p].retries < MaxRetries
    /\ task' = [task EXCEPT ![p].retries = @ + 1]
    /\ UNCHANGED <<state, groups, operations, resetVars>>

\* whenUnlocked: the lock marker is absent; the body is called
LockFree(p) ==
    /\ task[p].pc = "unlock"
    /\ task[p].retries < MaxRetries
    /\ task' = [task EXCEPT ![p].pc = "body", ![p].retries = 0]
    /\ UNCHANGED <<state, groups, operations, resetVars>>

\* a whenUnlocked that rejects when the retries are used up
LockGiveUpFailing(p) ==
    /\ task[p].pc = "unlock"
    /\ task[p].retries = MaxRetries
    /\ Catch("Locked")
    /\ Settle(p, "Locked", FALSE, "none")

\* whenUnlocked: the retries are used up; the body is called anyway
LockGiveUp(p) ==
    /\ task[p].pc = "unlock"
    /\ task[p].retries = MaxRetries
    /\ task' = [task EXCEPT ![p].pc = "body", ![p].retries = 0]
    /\ UNCHANGED <<state, groups, operations, resetVars>>

\* the body of push() caught PushCreatesNewRemoteBranches: it calls push() again
PushRetries(p) ==
    task[p].op = "Push" /\ task[p].toolErr = "PushCreatesNewRemoteBranches"

\* the body completed: a read-only operation returns through finally, any other
\* enters refresh, which asks for the summary
BodyOk(p) ==
    /\ task[p].pc = "body"
    /\ ~PushRetries(p)
    /\ IF IsReadOnly(Operation[task[p].op])
       THEN Settle(p, "none", TRUE, "none")
       ELSE /\ task' = [task EXCEPT ![p].pc = "summary", ![p].bodyOk = TRUE]
            /\ UNCHANGED operations
    /\ UNCHANGED <<state, groups, resetVars>>

\* a show() that answers '' for every failure of cat
BodyErrorShowAnswersEmpty(op, kind) ==
    CASE op = "Show" -> "none"
      [] op = "Pull" -> IF kind = "DefaultRepositoryNotConfigured" THEN "none" ELSE kind
      [] op = "Push" -> IF kind \in {"DefaultRepositoryNotConfigured",
                                     "PushCreatesNewRemoteHead",
                                     "PushCreatesNewRemoteBranches"}
                        THEN "none" ELSE kind
      [] OTHER -> kind

\* the error the body of op throws when its external call fails with kind ("none": the
\* catch clause of the body absorbs it and the body returns). show() answers '' for
\* NoSuchFile and replaces any other error of a failed cat by one without an error
\* code; pull() absorbs DefaultRepositoryNotConfigured; push() absorbs that,
\* PushCreatesNewRemoteHead and PushCreatesNewRemoteBranches
BodyError(op, kind) ==
    CASE op = "Show" -> IF kind = "NoSuchFile" THEN "none" ELSE "Could not show object"
      [] op = "Pull" -> IF kind = "DefaultRepositoryNotConfigured" THEN "none" ELSE kind
      [] op = "Push" -> IF kind \in {"DefaultRepositoryNotConfigured",
                                     "PushCreatesNewRemoteHead",
                                     "PushCreatesNewRemoteBranches"}
                        THEN "none" ELSE kind
      [] OTHER -> kind

\* the external call of the body failed with an error its catch clause absorbs
BodyAbsorbs(p, kind) ==
    /\ task[p].pc = "body"
    /\ task[p].op # "Status"
    /\ task[p].toolErr = "none"
    /\ BodyError(task[p].op, kind) = "none"
    /\ task' = [task EXCEPT ![p].toolErr = kind]
    /\ UNCHANGED <<state, groups, operations, resetVars>>

\* the body of push() calls push() again, with allowPushNewBranches, and returns what
\* the call answers. The call finds the push() it is made by in flight: the body
\* awaits the promise of that push(), which awaits the body
PushAgain(p) ==
    /\ task[p].pc = "body"
    /\ PushRetries(p)
    /\ Collapses(p, "Push")
    /\ task' = [task EXCEPT ![p].pc = "collapsed"]
    /\ UNCHANGED <<state, groups, operations, resetVars>>

\* the body failed (the body of status() is a resolved promise and cannot);
\* catch and finally of run
BodyFail(p, kind) ==
    /\ task[p].pc = "body"
    /\ task[p].op # "Status"
    /\ BodyError(task[p].op, kind) # "none"
    /\ task[p].toolErr = "none"
    /\ Catch(BodyError(task[p].op, kind))
    /\ Settle(p, BodyError(task[p].op, kind), FALSE, "none")

\* refresh: getSummary answered; status, current ref and resolve list are asked for
SummaryOk(p, merging) ==
    /\ task[p].pc = "summary"
    /\ task' = [task EXCEPT ![p].pc = "status", ![p].isMerge = merging]
    /\ UNCHANGED <<state, groups, operations, resetVars>>

\* refresh: an external call of refresh failed; the promise of refresh rejects
RefreshFail(p, kind) ==
    /\ task[p].pc \in {"summary", "status"}
    /\ task' = [task EXCEPT ![p].pc = "refreshThrew", ![p].err = kind, ![p].isMerge = FALSE]
    /\ UNCHANGED <<state, groups, operations, resetVars>>

\* the current ref the external tool answers getCurrentBranch and getActiveBookmark with
ToolBranch == "default"
ToolBookmark == "mark"

\* the parameters refresh gives groupStatuses
GroupInput(fileStatuses, isMerge, resolveList, existing) ==
    [fileStatuses |-> fileStatuses, isMerge |-> isMerge,
     resolveStatuses |-> [defined |-> isMerge, list |-> IF isMerge THEN resolveList ELSE <<>>],
     statusGroups |-> groups, existing |-> existing]

\* a refresh that installs the new groups but leaves the staging group in place
StatusOkKeepingStaging(p, fileStatuses, resolveList, existing) ==
    /\ task[p].pc = "status"
    /\ IF useBookmarks
       THEN activeBookmark' = ToolBookmark /\ UNCHANGED currentBranch
       ELSE currentBranch' = ToolBranch /\ UNCHANGED activeBookmark
    /\ LET result == GroupStatuses(GroupInput(fileStatuses, task[p].isMerge,
                                              resolveList, existing))
       IN  IF result.state = "returned"
           THEN /\ groups' = [result.groups EXCEPT !.staging = groups.staging]
                /\ task' = [task EXCEPT ![p].pc = "refreshed", ![p].fetched = fileStatuses,
                                        ![p].isMerge = FALSE]
           ELSE /\ groups' = groups
                /\ task' = [task EXCEPT ![p].pc = "refreshThrew", ![p].err = result.error,
                                        ![p].fetched = fileStatuses, ![p].isMerge = FALSE]
    /\ UNCHANGED <<state, operations, refs, syncCounts, counting>>

\* refresh: the status (and resolve list) answered; groupStatuses is called and its
\* groups replace the snapshot, or its error rejects the promise of refresh
StatusOk(p, fileStatuses, resolveList, existing) ==
    /\ task[p].pc = "status"
    /\ IF useBookmarks
       THEN activeBookmark' = ToolBookmark /\ UNCHANGED currentBranch
       ELSE currentBranch' = ToolBranch /\ UNCHANGED activeBookmark
    /\ LET result == GroupStatuses(GroupInput(fileStatuses, task[p].isMerge,
                                              resolveList, existing))
       IN  IF result.state = "returned"
           THEN /\ groups' = result.groups
                /\ task' = [task EXCEPT ![p].pc = "refreshed", ![p].fetched = fileStatuses,
                                        ![p].isMerge = FALSE]
           ELSE /\ groups' = groups
                /\ task' = [task EXCEPT ![p].pc = "refreshThrew", ![p].err = result.error,
                                        ![p].fetched = fileStatuses, ![p].isMerge = FALSE]
    /\ UNCHANGED <<state, operations, refs, syncCounts, counting>>

\* run: refresh completed; finally
RunAfterRefresh(p) ==
    /\ task[p].pc = "refreshed"
    /\ Settle(p, "none", TRUE, "completed")
    /\ UNCHANGED <<state, groups, resetVars>>

\* run: refresh failed; catch and finally
RunCatch(p) ==
    /\ task[p].pc = "refreshThrew"
    /\ Catch(task[p].err)
    /\ Settle(p, task[p].err, TRUE, "failed")

\* the caller takes the outcome of run
Return(p) ==
    /\ task[p].pc = "done"
    /\ task' = [task EXCEPT ![p] = IdleTask]
    /\ UNCHANGED <<state, groups, operations, resetVars>>

\* what no step of Model.run touches
otherVars == <<gsVars, rgVars, opVars, autoInOutState, useBookmarks, hg, args>>

\* the steps of an execution of run that is in flight
Progress(p) ==
    \/ WhenIdleRecheck(p)
    \/ RootOk(p)
    \/ \E kind \in ErrorKinds : RootFail(p, kind)
    \/ LockBusy(p)
    \/ LockFree(p)
    \/ LockGiveUp(p)
    \/ BodyOk(p)
    \/ \E kind \in ErrorKinds : BodyFail(p, kind)
    \/ \E merging \in BOOLEAN : SummaryOk(p, merging)
    \/ \E kind \in ErrorKinds : RefreshFail(p, kind)
    \/ \E fs \in ToolStatusLists, rs \in ToolResolveLists :
          \E ex \in SUBSET {FsPath(UriFile(rs[i].path)) : i \in 1..Len(rs)} :
             StatusOk(p, fs, rs, ex)
    \/ RunAfterRefresh(p)
    \/ RunCatch(p)

\* the constructor of Model calls status(): the first caller has run(Status) in flight
Init ==
    /\ FieldsInit
    /\ StageRest
    /\ useBookmarks = FALSE
    /\ operations = Start(0, Operation.Status)
    /\ task = [p \in Procs |->
                 IF p = "p1"
                 THEN [IdleTask EXCEPT !.op = "Status", !.pc = "root",
                                       !.startedSaw = "running",
                                       !.fired = <<"onRunOperation">>]
                 ELSE IdleTask]
    /\ GsRest /\ RgRest /\ OpRest

Next ==
    \E p \in Procs :
        \/ \E op \in ModelOperations : RunStart(p, op) /\ UNCHANGED otherVars
        \/ CallShow(p) /\ UNCHANGED otherVars
        \/ Progress(p) /\ UNCHANGED otherVars
        \/ Return(p) /\ UNCHANGED otherVars

Spec == Init /\ [][Next]_vars

\* the external calls settle and the event loop runs every continuation that is ready
LiveSpec == Spec /\ \A p \in Procs : WF_vars(Progress(p) /\ UNCHANGED otherVars)

----------------------------------------------------------------------------
(* Properties of Model.run *)

ReadOnlyOperations == {op \in ModelOperations : IsReadOnly(Operation[op])}

\* where an execution of run can be between marking its operation started and ended
RunPcs ==
    {"root", "unlock", "body", "collapsed", "summary", "status", "refreshed", "refreshThrew"}

\* caller p has an execution of run in flight: started and not yet ended
InFlight(p) == task[p].pc \in RunPcs

\* the execution of run of caller p took a step
Stepped(p) == task'[p] # task[p] /\ (task[p].pc \in RunPcs \/ task'[p].pc \in RunPcs)

(* C5: every execution of run that marked its operation started eventually
   marks it ended - its bit is cleared and the operation-ended notification
   fired - whether discovery, lock wait, body and refresh complete or fail. *)
C5_GuaranteedCleanup ==
    \A p \in Procs :
        InFlight(p) ~> (task[p].pc = "done" /\ task[p].endedSaw = "notRunning")

\* a run whose refresh failed was marked ended, with the notification fired
C5_Witness ==
    \E p \in Procs :
        /\ task[p].pc = "done"
        /\ task[p].refresh = "failed"
        /\ task[p].err = "Other"
        /\ task[p].endedSaw = "notRunning"

(* C6: when the body of run completed, the refresh ran before the operation
   was marked ended if and only if the operation is neither Show nor
   GetCommitTemplate; and a run of Show or GetCommitTemplate leaves the group
   snapshot unchanged. *)
C6_RefreshUnlessReadOnly ==
    /\ [](\A p \in Procs :
            (task[p].pc = "done" /\ task[p].bodyOk)
            => (task[p].refresh # "none" <=> task[p].op \notin ReadOnlyOperations))
    /\ [][\A p \in Procs :
            (Stepped(p) /\ (task[p].op \in ReadOnlyOperations
                            \/ task'[p].op \in ReadOnlyOperations))
            => groups' = groups]_vars

\* some record of the list carries a code the switch does not know
HasUnknownCode(fileStatuses) ==
    \E i \in 1..Len(fileStatuses) : fileStatuses[i].status \notin KnownCodes

(* C7: a refresh whose raw status list carries an unknown code fails with the
   classification error and leaves the group snapshot as it was; the error
   reaches the caller of run, with the operation marked ended and the
   snapshot and lifecycle state still as they were. *)
C7_UnknownCodeCommitsNothing ==
    /\ [][\A p \in Procs :
            (task[p].pc = "status" /\ Stepped(p) /\ HasUnknownCode(task'[p].fetched))
            => /\ task'[p].pc = "refreshThrew"
               /\ task'[p].err = "Unknown rawStatus"
               /\ groups' = groups]_vars
    /\ [][\A p \in Procs :
            (task[p].pc = "refreshThrew" /\ task[p].err = "Unknown rawStatus" /\ Stepped(p))
            => /\ task'[p].pc = "done"
               /\ task'[p].err = "Unknown rawStatus"
               /\ task'[p].endedSaw = "notRunning"
               /\ ~IsRunning(operations', Operation[task[p].op])
               /\ groups' = groups
               /\ state' = state]_vars
    /\ [](\A p \in Procs :
            (task[p].pc = "done" /\ HasUnknownCode(task[p].fetched))
            => (task[p].err = "Unknown rawStatus" /\ task[p].refresh = "failed"))

\* a run ended with the classification error while the snapshot of an earlier
\* refresh is still in place
C7_Witness ==
    \E p \in Procs :
        /\ task[p].pc = "done"
        /\ task[p].err = "Unknown rawStatus"
        /\ HasUnknownCode(task[p].fetched)
        /\ groups.working.resources # <<>>

----------------------------------------------------------------------------
(* The incoming/outgoing counters: countIncomingOutgoingAfterDelay *)

\* largest count the external tool answers a count query with
MaxCount == 1

\* the expected deltas a caller passes (0: none)
Deltas == {-1, 0, 1}

\* the delays a caller passes (0: no wait)
Delays == {0, 3000}

CountKinds == {"incoming", "outgoing"}

\* the error codes for which the auto-refresh status is set
AutoInOutErrorCodes ==
    {"AuthenticationFailed", "RepositoryIsUnrelated", "RepositoryDefaultNotFound"}

\* the errors a count query fails with: an HgError code and the words of its stderr
CountErrors ==
    [hgErrorCode : AutoInOutErrorCodes \cup {"Other"},
     stderr : {<<>>, <<"abort:", "authorization failed">>}]

\* (err.stderr || "").replace(/^abort:\s*/, '') || err.hgErrorCode
ErrorText(err) ==
    LET stripped == IF err.stderr # <<>> /\ Head(err.stderr) = "abort:"
                    THEN Tail(err.stderr) ELSE err.stderr
    IN  IF stripped # <<>> THEN stripped ELSE <<err.hgErrorCode>>

\* Math.max(0, count + expectedDelta)
Clamped(count, expectedDelta) ==
    IF count + expectedDelta < 0 THEN 0 ELSE count + expectedDelta

\* changeAutoInoutState
ChangeAutoInoutState(change) ==
    autoInOutState' = [autoInOutState EXCEPT !.status = change.status, !.error = change.error]

\* a catch block that sets the auto-refresh status for every error
CountCatchAnyError(err) ==
    ChangeAutoInoutState([status |-> "Error", error |-> ErrorText(err)])

\* the catch block of countIncomingOutgoingAfterDelay
CountCatch(err) ==
    IF err.hgErrorCode \in AutoInOutErrorCodes
    THEN ChangeAutoInoutState([status |-> "Error", error |-> ErrorText(err)])
    ELSE UNCHANGED autoInOutState

\* both counts are over
CountsSettled(c) == c.incoming.pc \in {"ok", "failed"} /\ c.outgoing.pc \in {"ok", "failed"}

\* countIncomingOutgoingAfterDelay(expectedDeltas, delayMillis): both counts run to
\* their first await, each applying its expected delta at once (the displayed
\* counters are kept within MaxCount + 1); the counts query this.repository, which
\* callers have once discovery made the state Idle
CountCall(dIn, dOut, delayMillis) ==
    /\ counting.call = "idle"
    /\ state = "Idle"
    /\ syncCounts.incoming + dIn <= MaxCount + 1
    /\ syncCounts.outgoing + dOut <= MaxCount + 1
    /\ syncCounts' = [incoming |-> Clamped(syncCounts.incoming, dIn),
                      outgoing |-> Clamped(syncCounts.outgoing, dOut)]
    /\ LET first == IF delayMillis # 0 THEN "delay" ELSE "options"
       IN  counting' = [call |-> "running", err |-> Undefined,
                        incoming |-> [IdleCount EXCEPT !.pc = first, !.delta = dIn],
                        outgoing |-> [IdleCount EXCEPT !.pc = first, !.delta = dOut]]
    /\ UNCHANGED <<state, groups, operations, task, currentBranch, activeBookmark, refs,
                   autoInOutState>>

\* the delay of count k is over; createSyncOptions is called
CountDelayed(k) ==
    /\ counting[k].pc = "delay"
    /\ counting' = [counting EXCEPT ![k].pc = "options"]
    /\ UNCHANGED <<state, groups, operations, task, currentBranch, activeBookmark, refs,
                   syncCounts, autoInOutState>>

\* createSyncOptions answered; the assignment takes the current _syncCounts object and
\* the count query is issued (the expected delta is not used again)
CountQuery(k) ==
    /\ counting[k].pc = "options"
    /\ counting' = [counting EXCEPT ![k].pc = "query", ![k].stale = FALSE, ![k].delta = 0]
    /\ UNCHANGED <<state, groups, operations, task, currentBranch, activeBookmark, refs,
                   syncCounts, autoInOutState>>

\* the count query of k answered n: the assignment writes the object it took, which
\* is the Model's _syncCounts unless the setter of state replaced it meanwhile
CountAnswered(k, n) ==
    /\ counting[k].pc = "query"
    /\ syncCounts' = IF counting[k].stale THEN syncCounts ELSE [syncCounts EXCEPT ![k] = n]
    /\ LET c == [counting EXCEPT ![k].pc = "ok", ![k].answer = n]
       IN  counting' = IF c.call = "running" /\ CountsSettled(c)
                       THEN [c EXCEPT !.call = "resolved"] ELSE c
    /\ UNCHANGED <<state, groups, operations, task, currentBranch, activeBookmark, refs,
                   autoInOutState>>

\* createSyncOptions or the count query of k failed: Promise.all rejects with the first
\* failure, which the catch block handles and rethrows
CountFailed(k, err) ==
    /\ counting[k].pc \in {"options", "query"}
    /\ IF counting.call = "running"
       THEN /\ CountCatch(err)
            /\ counting' = [counting EXCEPT ![k].pc = "failed", ![k].err = err,
                                            !.call = "rejected", !.err = err]
       ELSE /\ UNCHANGED autoInOutState
            /\ counting' = [counting EXCEPT ![k].pc = "failed", ![k].err = err]
    /\ UNCHANGED <<state, groups, operations, task, currentBranch, activeBookmark, refs,
                   syncCounts>>

\* the caller took the outcome and both counts are over
CountReturn ==
    /\ counting.call \in {"resolved", "rejected"}
    /\ CountsSettled(counting)
    /\ counting' = IdleCounting
    /\ UNCHANGED <<state, groups, operations, task, currentBranch, activeBookmark, refs,
                   syncCounts, autoInOutState>>

\* the Model with one caller running status() and one counting call at a time
SyncInit ==
    /\ FieldsInit
    /\ StageRest
    /\ useBookmarks \in BOOLEAN
    /\ operations = Start(0, Operation.Status)
    /\ task = [p \in Procs |->
                 IF p = "p1"
                 THEN [IdleTask EXCEPT !.op = "Status", !.pc = "root",
                                       !.startedSaw = "running",
                                       !.fired = <<"onRunOperation">>]
                 ELSE IdleTask]
    /\ GsRest /\ RgRest /\ OpRest

\* the steps of run in this specification: the lock marker is absent and the
\* repository is not mid-merge
SyncRun(p) ==
    \/ \E op \in {"Status", "Add"} : RunStart(p, op)
    \/ RootOk(p)
    \/ \E kind \in ErrorKinds : RootFail(p, kind)
    \/ LockFree(p)
    \/ BodyOk(p)
    \/ \E kind \in ErrorKinds : BodyFail(p, kind)
    \/ SummaryOk(p, FALSE)
    \/ \E kind \in ErrorKinds : RefreshFail(p, kind)
    \/ StatusOk(p, <<[path |-> "a.txt", status |-> "M", rename |-> Undefined]>>, <<>>, {})
    \/ RunAfterRefresh(p)
    \/ RunCatch(p)
    \/ Return(p)

\* the steps of a countIncomingOutgoingAfterDelay call whose queries answer
SyncCount ==
    \/ \E dIn \in Deltas, dOut \in Deltas, delayMillis \in Delays :
          CountCall(dIn, dOut, delayMillis)
    \/ \E k \in CountKinds :
          \/ CountDelayed(k)
          \/ CountQuery(k)
          \/ \E n \in 0..MaxCount : CountAnswered(k, n)
    \/ CountReturn

SyncNext ==
    \/ SyncRun("p1") /\ UNCHANGED otherVars
    \/ SyncCount /\ UNCHANGED <<gsVars, rgVars, opVars, useBookmarks, hg, args>>

SpecSync == SyncInit /\ [][SyncNext]_vars

\* the steps of a countIncomingOutgoingAfterDelay call any of whose awaits may fail
AutoNext ==
    \/ SyncCount /\ UNCHANGED <<gsVars, rgVars, opVars, useBookmarks, hg, args>>
    \/ \E k \in CountKinds, err \in CountErrors :
          CountFailed(k, err) /\ UNCHANGED <<gsVars, rgVars, opVars, useBookmarks, hg, args>>

\* the Model after its first status() succeeded, with nothing in flight
AutoInit ==
    /\ state = "Idle"
    /\ groups = CreateEmptyStatusGroups
    /\ currentBranch = ToolBranch
    /\ activeBookmark = Undefined
    /\ refs = <<>>
    /\ syncCounts = [incoming |-> 0, outgoing |-> 0]
    /\ autoInOutState \in {[status |-> "Disabled", error |-> Undefined],
                            [status |-> "Enabled", error |-> Undefined]}
    /\ counting = IdleCounting
    /\ StageRest
    /\ useBookmarks = FALSE
    /\ operations = 0
    /\ task = [p \in Procs |-> IdleTask]
    /\ GsRest /\ RgRest /\ OpRest

SpecAuto == AutoInit /\ [][AutoNext]_vars

(* C12: when a step of run fails with a not-a-repository error, the state
   becomes NotAnHgRepository, the current branch and bookmark, the refs, the
   sync counts and the five groups are reset, the error reaches the caller
   and the operation is marked ended; a failure of another kind leaves the
   state as it was. *)
C12_NotARepositoryResets ==
    [][\A p \in Procs :
         (Stepped(p) /\ task'[p].pc = "done" /\ task'[p].err # "none")
         => IF task'[p].err = "NotAnHgRepository"
            THEN /\ state' = "NotAnHgRepository"
                 /\ currentBranch' = Undefined /\ activeBookmark' = Undefined
                 /\ refs' = <<>>
                 /\ syncCounts' = [incoming |-> 0, outgoing |-> 0]
                 /\ \A g \in ResourceGroupId : groups'[g].resources = <<>>
                 /\ task'[p].endedSaw = "notRunning"
                 /\ ~IsRunning(operations', Operation[task[p].op])
            ELSE /\ state' = state
                 /\ task'[p].endedSaw = "notRunning"]_vars

\* a run ended with the not-a-repository error after a confirmed incoming count of 1
\* was displayed: the counters are back at 0
C12_Witness ==
    /\ state = "NotAnHgRepository"
    /\ \E p \in Procs : task[p].pc = "done" /\ task[p].err = "NotAnHgRepository"
    /\ counting.incoming.pc = "ok" /\ counting.incoming.answer = 1
    /\ ~counting.incoming.stale
    /\ syncCounts.incoming = 0
    /\ currentBranch = Undefined /\ activeBookmark = Undefined

\* the other of the two counts
OtherCount(k) == IF k = "incoming" THEN "outgoing" ELSE "incoming"

(* C17: a count first adds its expected delta to the displayed counter,
   never below 0, and issues no query before the delay is over; when its query
   answers, the counter equals the answer; and the step of one count leaves the
   counter of the other as it was. *)
C17_CountConfirmed ==
    [][/\ (counting.call = "idle" /\ counting'.call = "running")
          => \A k \in CountKinds :
                /\ syncCounts'[k] = Clamped(syncCounts[k], counting'[k].delta)
                /\ syncCounts'[k] >= 0
                /\ counting'[k].pc \in {"delay", "options"}
       /\ \A k \in CountKinds :
             /\ (counting'[k].pc = "query" /\ counting[k].pc # "query")
                => counting[k].pc = "options"
             /\ (counting[k].pc = "query" /\ counting'[k].pc = "ok")
                => /\ syncCounts'[k] = counting'[k].answer
                   /\ syncCounts'[OtherCount(k)] = syncCounts[OtherCount(k)]]_vars

(* C18: when either count of countIncomingOutgoingAfterDelay fails with an
   authentication, unrelated-repository or default-path-not-found error, the
   auto-refresh status becomes Error with the error text and that error is
   rethrown; a failure of another kind is rethrown and leaves the auto-refresh
   status as it was. *)
C18_EitherFailureStatus ==
    [][\A k \in CountKinds :
         (counting[k].pc # "failed" /\ counting'[k].pc = "failed")
         => /\ counting'.call = "rejected"
            /\ counting'.err = counting'[k].err
            /\ IF counting'[k].err.hgErrorCode \in AutoInOutErrorCodes
               THEN /\ autoInOutState'.status = "Error"
                    /\ autoInOutState'.error = ErrorText(counting'[k].err)
               ELSE autoInOutState' = autoInOutState]_vars

(* C18 amended: the first failure of the two counts fails the call: when it
   is an authentication, unrelated-repository or default-path-not-found error,
   the auto-refresh status becomes Error with the error text (stderr without
   its abort: prefix, or the error code), otherwise the status stays as it was;
   that error is rethrown. A failure of the other count after that is dropped:
   it changes neither the status nor the error the call failed with. *)
C18_FirstFailureStatus ==
    [][\A k \in CountKinds :
         (counting[k].pc # "failed" /\ counting'[k].pc = "failed")
         => IF counting.call = "running"
            THEN /\ counting'.call = "rejected"
                 /\ counting'.err = counting'[k].err
                 /\ IF counting'[k].err.hgErrorCode
                         \in {"AuthenticationFailed", "RepositoryIsUnrelated",
                              "RepositoryDefaultNotFound"}
                    THEN /\ autoInOutState'.status = "Error"
                         /\ autoInOutState'.error =
                               (IF counting'[k].err.stderr = <<>>
                                THEN <<counting'[k].err.hgErrorCode>>
                                ELSE <<"authorization failed">>)
                    ELSE autoInOutState' = autoInOutState
            ELSE /\ counting'.call = counting.call
                 /\ counting'.err = counting.err
                 /\ autoInOutState' = autoInOutState]_vars

\* the call failed with an authentication error whose stderr carries the abort:
\* prefix while the other count had answered; the status is Error with the bare text
C18_Witness ==
    /\ counting.call = "rejected"
    /\ counting.err.hgErrorCode = "AuthenticationFailed"
    /\ counting.err.stderr # <<>>
    /\ counting.incoming.pc = "ok" /\ counting.outgoing.pc = "failed"
    /\ autoInOutState = [status |-> "Error", error |-> <<"authorization failed">>]

----------------------------------------------------------------------------
(* Errors of the bodies run through Model.run *)

\* the error codes the external call of a body fails with
ToolErrorKinds ==
    ErrorKinds \cup {"NoSuchFile", "DefaultRepositoryNotConfigured",
                     "PushCreatesNewRemoteHead", "PushCreatesNewRemoteBranches"}

\* the steps of run in this specification: the lock marker is absent, the
\* repository is not mid-merge, and the body's external call fails in every way
ErrProgress(p) ==
    \/ WhenIdleRecheck(p)
    \/ RootOk(p)
    \/ \E kind \in ErrorKinds : RootFail(p, kind)
    \/ LockFree(p)
    \/ BodyOk(p)
    \/ \E kind \in ToolErrorKinds : BodyAbsorbs(p, kind)
    \/ PushAgain(p)
    \/ \E kind \in ToolErrorKinds : BodyFail(p, kind)
    \/ SummaryOk(p, FALSE)
    \/ \E kind \in ErrorKinds : RefreshFail(p, kind)
    \/ StatusOk(p, <<[path |-> "a.txt", status |-> "M", rename |-> Undefined]>>, <<>>, {})
    \/ RunAfterRefresh(p)
    \/ RunCatch(p)

\* the calls of this specification and the steps of their runs
ErrRun(p) ==
    \/ \E op \in {"Status", "Add", "Show", "Pull", "Push"} : RunStart(p, op)
    \/ CallShow(p)
    \/ ErrProgress(p)
    \/ Return(p)

ErrNext == \E p \in Procs : ErrRun(p) /\ UNCHANGED otherVars

SpecErr == Init /\ [][ErrNext]_vars

\* the external calls settle and the event loop runs every continuation that is ready
LiveErr == SpecErr /\ \A p \in Procs : WF_vars(ErrProgress(p) /\ UNCHANGED otherVars)

\* the errors the spec lists as absorbed: the recoverable push/pull cases
RecoverablePushPull ==
    {<<"Pull", "DefaultRepositoryNotConfigured">>,
     <<"Push", "DefaultRepositoryNotConfigured">>,
     <<"Push", "PushCreatesNewRemoteHead">>,
     <<"Push", "PushCreatesNewRemoteBranches">>}

\* an error of the body reaches the caller, with the operation marked ended
ErrorsReachCaller ==
    /\ [][\A p \in Procs :
            (task[p].pc = "body" /\ Stepped(p) /\ task'[p].pc = "done" /\ ~task'[p].bodyOk)
            => task'[p].err # "none"]_vars
    /\ [](\A p \in Procs :
            (task[p].pc = "done" /\ task[p].err # "none")
            => task[p].endedSaw = "notRunning")

(* C16: an error raised by the body of an operation reaches the caller, after
   the operation has been marked ended; an error of the external tool is
   absorbed only in the recoverable push/pull cases - no other operation,
   show included, completes without error when its external call failed. *)
C16_OnlyPushPullAbsorb ==
    /\ ErrorsReachCaller
    /\ [](\A p \in Procs :
            task[p].toolErr # "none" => <<task[p].op, task[p].toolErr>> \in RecoverablePushPull)

(* C16 amended: an error raised by the body reaches the caller, after the
   operation has been marked ended; an error of the external tool is absorbed
   only in the recoverable push/pull cases and when show's cat fails with
   NoSuchFile (show then answers the empty string); show raises every other
   failure of cat as a "Could not show object" error, which reaches the
   caller. *)
C16_AbsorbedErrors ==
    /\ ErrorsReachCaller
    /\ [](\A p \in Procs :
            task[p].toolErr # "none"
            => <<task[p].op, task[p].toolErr>>
                  \in RecoverablePushPull \cup {<<"Show", "NoSuchFile">>})
    /\ [](\A p \in Procs :
            (task[p].pc = "done" /\ task[p].op = "Show" /\ ~task[p].bodyOk
             /\ task[p].startedSaw = "running" /\ task[p].err \notin ErrorKinds)
            => task[p].err = "Could not show object")

\* a push whose external call failed with PushCreatesNewRemoteHead completed without
\* an error, refresh included
C16_Witness ==
    \E p \in Procs :
        /\ task[p].pc = "done" /\ task[p].op = "Push"
        /\ task[p].toolErr = "PushCreatesNewRemoteHead"
        /\ task[p].err = "none" /\ task[p].refresh = "completed"
        /\ task[p].endedSaw = "notRunning"

----------------------------------------------------------------------------
(* stage, unstage, commit and rollback against a repository whose changes only
   the Model's own operations make *)

\* the records of changed files the repository may hold: a modified a.txt, a
\* modified b.txt, or a b.txt copied from a.txt
HgRecords ==
    { [path |-> "a.txt", status |-> "M", rename |-> Undefined],
      [path |-> "b.txt", status |-> "M", rename |-> Undefined],
      [path |-> "b.txt", status |-> "A", rename |-> "a.txt"] }

\* the sets of records that name each file once
HgChanges == {S \in SUBSET HgRecords : \A r1, r2 \in S : r1.path = r2.path => r1 = r2}

\* the order the external tool lists files in
PathOrder == <<"a.txt", "b.txt">>

\* getStatus(): the records of S, in path order
StatusList(S) ==
    LET changed(path) == \E r \in S : r.path = path
        ps == SelectSeq(PathOrder, changed)
    IN  [i \in 1..Len(ps) |-> CHOOSE r \in S : r.path = ps[i]]

\* getResolveList() in a merge: a.txt is unresolved, any other changed file resolved
HgResolveList(S) ==
    LET l == StatusList(S)
    IN  [i \in 1..Len(l) |->
            [path |-> l[i].path,
             status |-> IF l[i].path = "a.txt" THEN "U" ELSE "R",
             rename |-> Undefined]]

\* every file of the working directory exists
HgExisting == {FsPath(u) : u \in Uris}

\* the values of CommitScope the callers use
CommitScopes == {"ALL", "STAGED_CHANGES", "CHANGES"}

\* the resources a caller may hand stage() or unstage(): none, one resource of any
\* group, or all the resources of one group
Picks ==
    {<<>>}
    \cup UNION {{<<groups[g].resources[i]>> : i \in 1..Len(groups[g].resources)} :
                    g \in ResourceGroupId}
    \cup {groups[g].resources : g \in ResourceGroupId}

\* stage(...resources): run(Operation.Stage, body) is entered
CallStage(p, resources) ==
    /\ RunStart(p, "Stage")
    /\ args' = [args EXCEPT ![p] = [NoArgs EXCEPT !.resources = resources]]
    /\ UNCHANGED hg

\* the body of stage(): no argument means the working group's resources; the
\* staging group takes the resources in and the working group gives them up. The
\* repository of this specification reports no missing or added file, so the
\* nested AddRemove run of the body is never asked for
StageBody(p) ==
    /\ task[p].pc = "body"
    /\ task[p].op = "Stage"
    /\ LET resources == IF Len(args[p].resources) = 0 THEN groups.working.resources
                        ELSE args[p].resources
       IN  /\ \A i \in 1..Len(resources) : resources[i].status \notin {"MISSING", "ADDED"}
           /\ groups' = [groups EXCEPT
                            !.staging = GroupIntersect(groups.staging, resources),
                            !.working = GroupExcept(groups.working, resources)]
    /\ task' = [task EXCEPT ![p].pc = "summary", ![p].bodyOk = TRUE]
    /\ UNCHANGED <<state, operations, resetVars, hg, args>>

\* unstage(...resources): no argument means the staging group's resources; the
\* staging group gives the resources up and the working group takes them in. No run
\* is entered
Unstage(resources) ==
    /\ LET given == IF Len(resources) = 0 THEN groups.staging.resources ELSE resources
       IN  groups' = [groups EXCEPT
                         !.staging = GroupExcept(groups.staging, given),
                         !.working = GroupIntersect(groups.working, given)]
    /\ UNCHANGED <<state, operations, task, resetVars, hg, args>>

\* commit(message, opts): run(Operation.Commit, body) is entered
CallCommit(p, scope) ==
    /\ RunStart(p, "Commit")
    /\ args' = [args EXCEPT ![p] = [NoArgs EXCEPT !.scope = scope]]
    /\ UNCHANGED hg

\* the locations of the files the body of commit() names to the external tool
FileList(scope) ==
    CASE scope = "STAGED_CHANGES" -> Locations(groups.staging)
      [] scope = "CHANGES" -> Locations(groups.working)
      [] OTHER -> {}

\* the records the external tool commits: those of the files named, all when none is
\* named
Committed(scope) ==
    IF FileList(scope) = {} THEN hg.changes
    ELSE {r \in hg.changes : UriFile(r.path) \in FileList(scope)}

\* the external tool refuses to commit nothing and to commit part of a merge
CommitRefused(scope) ==
    \/ Committed(scope) = {} /\ ~hg.merging
    \/ FileList(scope) # {} /\ hg.merging

\* the body of commit(): the external tool commits; what it committed can be undone,
\* and staged notes the locations the staging group named
CommitBody(p) ==
    /\ task[p].pc = "body"
    /\ task[p].op = "Commit"
    /\ ~CommitRefused(args[p].scope)
    /\ hg' = [changes |-> hg.changes \ Committed(args[p].scope),
              merging |-> FALSE,
              undo |-> [kind |-> "commit",
                        changes |-> Committed(args[p].scope),
                        merging |-> hg.merging,
                        staged |-> {UriFile(r.path) : r \in Committed(args[p].scope)}
                                   \cap FileList(args[p].scope)
                                   \cap Locations(groups.staging)]]
    /\ task' = [task EXCEPT ![p].pc = "summary", ![p].bodyOk = TRUE]
    /\ UNCHANGED <<state, groups, operations, resetVars, args>>

\* the body of commit() when the external tool refuses
CommitFail(p) ==
    /\ task[p].op = "Commit"
    /\ CommitRefused(args[p].scope)
    /\ BodyFail(p, "Other")
    /\ UNCHANGED <<hg, args>>

\* the dryRunDetails a caller hands rollback(): none, or the affected files an earlier
\* dry run reported for the commit that can be undone
DetailsOf(withDetails) ==
    IF withDetails /\ hg.undo.kind = "commit"
    THEN [defined |-> TRUE,
          affectedFiles |-> [i \in 1..Len(StatusList(hg.undo.changes)) |->
                                StatusList(hg.undo.changes)[i].path]]
    ELSE NoDetails

\* rollback(dryRun, dryRunDetails): run(op, body) is entered
CallRollback(p, dryRun, withDetails) ==
    /\ RunStart(p, IF dryRun THEN "RollbackDryRun" ELSE "Rollback")
    /\ args' = [args EXCEPT ![p] = [NoArgs EXCEPT !.details = DetailsOf(withDetails)]]
    /\ UNCHANGED hg

\* the body of rollback(): the external tool reports the commit it can undo and,
\* unless this is a dry run, undoes it: the committed changes are changes of the
\* working directory again
RollbackBody(p) ==
    /\ task[p].pc = "body"
    /\ task[p].op \in {"Rollback", "RollbackDryRun"}
    /\ hg.undo.kind = "commit"
    /\ IF task[p].op = "Rollback"
       THEN /\ hg' = [changes |-> {r \in hg.changes :
                                      \A u \in hg.undo.changes : u.path # r.path}
                                  \cup hg.undo.changes,
                      merging |-> hg.undo.merging,
                      undo |-> NoUndo]
            /\ args' = [args EXCEPT ![p].undidStaged = hg.undo.staged]
       ELSE UNCHANGED <<hg, args>>
    /\ task' = [task EXCEPT ![p].pc = "summary", ![p].bodyOk = TRUE]
    /\ UNCHANGED <<state, groups, operations, resetVars>>

\* the body of rollback() when there is no commit to undo
RollbackFail(p) ==
    /\ task[p].op \in {"Rollback", "RollbackDryRun"}
    /\ hg.undo.kind = "none"
    /\ BodyFail(p, "Other")
    /\ UNCHANGED <<hg, args>>

\* findTrackedResourceByUri: the first resource at uri in the working, staging,
\* merge and conflict groups, in this order
FindTrackedResourceByUri(uri) ==
    LET same(r) == ResourceUri(r) = uri
        hits == SelectSeq(groups.working.resources \o groups.staging.resources
                          \o groups.merge.resources \o groups.conflict.resources, same)
    IN  IF Len(hits) = 0 THEN NoResource ELSE hits[1]

\* rollback() after its run: the condition under which it calls stage()
ShouldRestage(p) ==
    /\ task[p].pc = "done"
    /\ task[p].op = "Rollback"
    /\ task[p].err = "none"
    /\ args[p].details.defined
    /\ Len(groups.staging.resources) > 0
    /\ Len(args[p].details.affectedFiles) > 0

\* the locations of the affected files that a tracked group holds
AffectedTracked(p) ==
    {u \in {UriFile(args[p].details.affectedFiles[i]) :
                i \in 1..Len(args[p].details.affectedFiles)} :
        \E g \in {"working", "staging", "merge", "conflict"} : u \in Locations(groups[g])}

\* a rollback() that returns without calling stage()
RollbackWithoutFollowUp(p) ==
    /\ ShouldRestage(p)
    /\ task' = [task EXCEPT ![p] = IdleTask]
    /\ UNCHANGED <<state, groups, operations, resetVars, hg, args>>

\* rollback() after its run undid a commit, with details and a staging group that is
\* not empty: the tracked resources of the affected files are handed to stage(),
\* whose run is entered and not awaited
RollbackFollowUp(p) ==
    /\ ShouldRestage(p)
    /\ LET isFound(r) == r # NoResource
           files == args[p].details.affectedFiles
           found == SelectSeq([i \in 1..Len(files) |->
                                  FindTrackedResourceByUri(UriFile(files[i]))],
                              isFound)
       IN  args' = [args EXCEPT ![p] = [NoArgs EXCEPT
                                           !.resources = found,
                                           !.followUp = TRUE,
                                           !.mustStage = AffectedTracked(p),
                                           !.undidStaged = args[p].undidStaged]]
    /\ operations' = Start(operations, Operation.Stage)
    /\ task' = [task EXCEPT ![p] = [IdleTask EXCEPT
                                       !.op = "Stage",
                                       !.startedSaw = Saw(operations', "Stage"),
                                       !.fired = <<"onRunOperation">>,
                                       !.pc = IF state = "Idle" THEN "unlock" ELSE "root"]]
    /\ UNCHANGED <<state, groups, resetVars, hg>>

\* the caller takes the outcome of its call; rollback() returns here when it does
\* not call stage()
StageReturn(p) ==
    /\ ~ShouldRestage(p)
    /\ Return(p)
    /\ UNCHANGED <<hg, args>>

\* the callers of this specification: one call at a time
StageProcs == {"p1"}

\* the steps of a run in flight, with the external tool answering from hg
StageProgress(p) ==
    \/ RootOk(p) /\ UNCHANGED <<hg, args>>
    \/ LockFree(p) /\ UNCHANGED <<hg, args>>
    \/ task[p].op = "Status" /\ BodyOk(p) /\ UNCHANGED <<hg, args>>
    \/ StageBody(p)
    \/ CommitBody(p)
    \/ CommitFail(p)
    \/ RollbackBody(p)
    \/ RollbackFail(p)
    \/ SummaryOk(p, hg.merging) /\ UNCHANGED <<hg, args>>
    \/ StatusOk(p, StatusList(hg.changes), HgResolveList(hg.changes), HgExisting)
          /\ UNCHANGED <<hg, args>>
    \/ RunAfterRefresh(p) /\ UNCHANGED <<hg, args>>
    \/ RollbackFollowUp(p)

\* the calls a caller makes
StageCalls(p) ==
    \/ RunStart(p, "Status") /\ UNCHANGED <<hg, args>>
    \/ \E resources \in Picks : CallStage(p, resources)
    \/ \E scope \in CommitScopes : CallCommit(p, scope)
    \/ \E dryRun \in BOOLEAN, withDetails \in BOOLEAN : CallRollback(p, dryRun, withDetails)
    \/ StageReturn(p)

\* the construction of the Model over a repository with some changes, in a merge or not
StageInit ==
    /\ FieldsInit
    /\ \E S \in HgChanges, m \in BOOLEAN :
          hg = [changes |-> S, merging |-> m, undo |-> NoUndo]
    /\ args = [p \in Procs |-> NoArgs]
    /\ useBookmarks = FALSE
    /\ operations = Start(0, Operation.Status)
    /\ task = [p \in Procs |->
                 IF p = "p1"
                 THEN [IdleTask EXCEPT !.op = "Status", !.pc = "root",
                                       !.startedSaw = "running",
                                       !.fired = <<"onRunOperation">>]
                 ELSE IdleTask]
    /\ GsRest /\ RgRest /\ OpRest

\* what no step of this specification touches. The continuation of a settled run
\* (pc "done") runs before the event loop handles the next command, an unstage()
stageOther == <<gsVars, rgVars, opVars, autoInOutState, useBookmarks>>

StageNext ==
    \/ \E p \in StageProcs : StageCalls(p) /\ UNCHANGED stageOther
    \/ \E p \in StageProcs : StageProgress(p) /\ UNCHANGED stageOther
    \/ /\ \A p \in StageProcs : task[p].pc # "done"
       /\ \E resources \in Picks : Unstage(resources) /\ UNCHANGED stageOther

SpecStage == StageInit /\ [][StageNext]_vars

\* what leads a call to the end of its body: discovery, the wait for the lock, the
\* bodies that make no external call, and the continuation of rollback()
StageContinues(p) ==
    \/ RootOk(p) /\ UNCHANGED <<hg, args>>
    \/ LockFree(p) /\ UNCHANGED <<hg, args>>
    \/ StageBody(p)
    \/ RollbackFollowUp(p)

\* the event loop runs every continuation that is ready; nothing is assumed of the
\* external tool's answers to refresh
LiveStage ==
    SpecStage /\ \A p \in StageProcs : WF_vars(StageContinues(p) /\ UNCHANGED stageOther)

----------------------------------------------------------------------------
(* Properties of stage, unstage, commit and rollback *)

\* the positions of a run at which refresh has asked the external tool for the
\* summary or the status, or has replaced the groups by those of groupStatuses
RefreshPcs == {"summary", "status", "refreshed", "refreshThrew"}

\* C13: neither stage nor unstage runs the Status Reconciler or asks the external
\* tool for the status: a stage() call never stands in refresh, and a step that
\* changes the groups while no call but stage() is in flight is the recombination
\* of stage() or unstage(), staging and working changing only by intersect and except
C13_StageUnstageNoReconciler ==
    [][\A p \in StageProcs :
          /\ task'[p].op = "Stage" => task'[p].pc \notin RefreshPcs
          /\ task[p].op = "Stage" /\ task[p].pc # "done" /\ groups' # groups =>
                \E resources \in Picks \cup {args[p].resources} :
                    LET given == IF Len(resources) = 0 THEN groups.working.resources
                                 ELSE resources
                        taken == IF Len(resources) = 0 THEN groups.staging.resources
                                 ELSE resources
                    IN  \/ groups' = [groups EXCEPT
                                 !.staging = GroupIntersect(groups.staging, given),
                                 !.working = GroupExcept(groups.working, given)]
                        \/ groups' = [groups EXCEPT
                                 !.staging = GroupExcept(groups.staging, taken),
                                 !.working = GroupIntersect(groups.working, taken)]]_vars

\* the groups of tracked files
TrackedGroups == {"conflict", "merge", "staging", "working"}

\* C20: in every reachable state, after any refreshes, stage and unstage calls with
\* resources of any group and lifecycle transitions, no file location is held by
\* more than one of the conflict, merge, staging and working groups
C20_TrackedGroupsDisjoint ==
    \A g1, g2 \in TrackedGroups :
        g1 # g2 => Locations(groups[g1]) \cap Locations(groups[g2]) = {}

\* a rollback() that undid a commit and was given dryRunDetails is complete, with
\* the stage() it called, if it called one
RollbackComplete(p) ==
    /\ task[p].pc = "done"
    /\ task[p].err = "none"
    /\ \/ task[p].op = "Rollback" /\ args[p].details.defined /\ ~ShouldRestage(p)
       \/ task[p].op = "Stage" /\ args[p].followUp

\* C15: files that were staged and committed with the staged-changes scope are in
\* the staging group again once a non-dry-run rollback of that commit, called with
\* the dry-run details, and its follow-up staging are complete
C15_StagingIntentSurvives ==
    \A p \in StageProcs :
        RollbackComplete(p) => args[p].undidStaged \subseteq Locations(groups.staging)

\* C14: when a rollback(false, dryRunDetails) has undone a commit and the staging
\* group is not empty, every affected file that a tracked group holds is eventually
\* in the staging group; and no step of a dry-run rollback changes the locations the
\* staging group holds
C14_RollbackRestages ==
    /\ \A S \in SUBSET Uris :
          (\E p \in StageProcs : ShouldRestage(p) /\ AffectedTracked(p) = S)
             ~> (S \subseteq Locations(groups.staging))
    /\ [][\A p \in StageProcs :
             task'[p].op = "RollbackDryRun" /\ task'[p] # task[p] =>
                Locations(groups'.staging) = Locations(groups.staging)]_vars

\* the stage() that a rollback called is complete and the affected file it was to
\* stage, which the working group held, is in the staging group
C14_Witness ==
    \E p \in StageProcs :
        /\ task[p].pc = "done"
        /\ task[p].op = "Stage"
        /\ args[p].followUp
        /\ args[p].mustStage # {}
        /\ args[p].mustStage \subseteq Locations(groups.staging)
        /\ Len(groups.staging.resources) > Cardinality(args[p].mustStage)

----------------------------------------------------------------------------
(* Further properties of Model.run: the lock wait, notifications, whenIdle *)

\* the steps of runs of status() and add() whose external calls answer, with the
\* lock marker present or absent at each check
LockRun(p) ==
    \/ RootOk(p)
    \/ LockBusy(p)
    \/ LockFree(p)
    \/ LockGiveUp(p)
    \/ BodyOk(p)
    \/ SummaryOk(p, FALSE)
    \/ StatusOk(p, <<[path |-> "a.txt", status |-> "M", rename |-> Undefined]>>, <<>>, {})
    \/ RunAfterRefresh(p)

LockNext ==
    \E p \in Procs :
        \/ \E op \in {"Status", "Add"} : RunStart(p, op) /\ UNCHANGED otherVars
        \/ LockRun(p) /\ UNCHANGED otherVars
        \/ Return(p) /\ UNCHANGED otherVars

SpecLock == Init /\ [][LockNext]_vars

\* the external calls settle and the event loop runs every continuation that is ready
LiveLock == SpecLock /\ \A p \in Procs : WF_vars(LockRun(p) /\ UNCHANGED otherVars)

\* C25: the lock wait of run always terminates: a check that finds the marker absent
\* leads to the body at once, at most 10 timed waits are made, each after a check
\* that found the marker, and after the tenth the body is executed and no error raised
C25_LockWaitTerminates ==
    /\ \A p \in Procs : (task[p].pc = "unlock") ~> (task[p].pc = "body")
    /\ [][\A p \in Procs :
             task[p].pc = "unlock" /\ task'[p] # task[p] =>
                \/ /\ task'[p].pc = "unlock"
                   /\ task[p].retries < 10
                   /\ task'[p].retries = task[p].retries + 1
                \/ /\ task'[p].pc = "body"
                   /\ task[p].retries <= 10
                   /\ task'[p].err = "none"]_vars

\* the marker was found at every check and 10 timed waits were made: nothing but
\* the body is ahead
C25_Witness ==
    \E p \in Procs : task[p].pc = "unlock" /\ task[p].retries = 10

\* the groups one groupStatuses call returns for what the external tool reports and
\* the snapshot in force, mid-merge or not
Reconciled(isMerge) ==
    GroupStatuses([fileStatuses |-> StatusList(hg.changes),
                   isMerge |-> isMerge,
                   resolveStatuses |-> [defined |-> isMerge,
                                        list |-> IF isMerge THEN HgResolveList(hg.changes)
                                                 ELSE <<>>],
                   statusGroups |-> groups,
                   existing |-> HgExisting])

\* C26: a refresh installs its result in one step: while a caller stands in refresh
\* its steps leave the five groups as they are, but for the one step that replaces
\* them all by the groups of one groupStatuses call, and that call consulted the
\* staging group in force at the step
C26_AtomicReplace ==
    [][\A p \in StageProcs :
          task[p].pc \in {"summary", "status"} /\ task'[p] # task[p] =>
             IF task'[p].pc = "refreshed"
             THEN /\ Reconciled(task[p].isMerge).state = "returned"
                  /\ groups' = Reconciled(task[p].isMerge).groups
             ELSE groups' = groups]_vars

\* a refresh has replaced the groups and, having consulted a staging group that held
\* a file, left one file staged and another in the working group
C26_Witness ==
    \E p \in StageProcs :
        /\ task[p].pc = "refreshed"
        /\ Len(groups.staging.resources) = 1
        /\ Len(groups.working.resources) = 1

\* C27: when push fails because it would create new remote branches, the push is made
\* again, its outcome is what the caller receives, and the Push operation is
\* eventually marked ended
C27_PushRetryEnds ==
    \A p \in Procs :
        (task[p].pc = "body" /\ PushRetries(p))
           ~> (task[p].pc = "done" /\ task[p].op = "Push")

\* C28: the operation-started notification of a run is fired with the bit of its
\* operation set and before the body; the operation-ended notification is fired with
\* the bit cleared and after the refresh of the run, if it makes one; a run fires
\* one started and then one ended notification
C28_NotificationOrder ==
    /\ [](\A p \in Procs :
            /\ InFlight(p) =>
                  task[p].fired = <<"onRunOperation">> /\ task[p].startedSaw = "running"
            /\ task[p].pc = "done" =>
                  /\ task[p].fired = <<"onRunOperation", "onDidRunOperation">>
                  /\ task[p].startedSaw = "running"
                  /\ task[p].endedSaw = "notRunning"
            /\ task[p].pc \notin RunPcs \cup {"done"} => task[p].fired = <<>>)
    /\ [][\A p \in Procs :
             (task[p].pc # "done" /\ task'[p].pc = "done"
              /\ task'[p].bodyOk /\ ~IsReadOnly(Operation[task[p].op]))
             => task[p].pc \in {"refreshed", "refreshThrew"}]_vars

\* a run of a push whose refresh completed has fired both notifications, and one of
\* a show, which makes no refresh, too
C28_Witness ==
    /\ \E p \in Procs :
          /\ task[p].pc = "done" /\ task[p].op = "Push" /\ task[p].refresh = "completed"
          /\ task[p].fired = <<"onRunOperation", "onDidRunOperation">>
    /\ \E p \in Procs :
          /\ task[p].pc = "done" /\ task[p].op = "Show" /\ task[p].bodyOk
          /\ task[p].fired = <<"onRunOperation", "onDidRunOperation">>

\* caller p is inside whenIdle: waiting for onDidRunOperation, or resumed by it
InWhenIdle(p) == task[p].pc \in {"waitEvent", "recheck"}

\* a step in which caller p marks an operation started
Starts(p) == ~InFlight(p) /\ task'[p].pc \in RunPcs

(* C29: whenIdle completes only in a state where the operations mask is idle;
   called while the mask is idle it completes without waiting for an event; and
   in every behaviour in which each started operation eventually ends and from
   some point on no operation is started, a caller waiting in whenIdle
   eventually gets out of it. *)
C29_WhenIdle ==
    /\ [][\A p \in Procs :
             /\ (task[p].pc # "showReady" /\ task'[p].pc = "showReady")
                => IsIdle(operations) /\ IsIdle(operations')
             /\ (task[p].pc = "idle" /\ IsIdle(operations) /\ task'[p].pc # "idle"
                 /\ task'[p].pc \notin RunPcs)
                => task'[p].pc = "showReady"]_vars
    /\ ((/\ <>[][\A q \in Procs : ~Starts(q)]_vars
         /\ \A q \in Procs : InFlight(q) ~> ~InFlight(q))
        => \A p \in Procs : InWhenIdle(p) ~> ~InWhenIdle(p))

\* a whenIdle that waited has been resumed by onDidRunOperation and finds the
\* mask idle, the run that ended having fired both notifications
C29_Witness ==
    \E p, q \in Procs :
        /\ task[p].pc = "recheck"
        /\ IsIdle(operations)
        /\ task[q].pc = "done"
        /\ task[q].fired = <<"onRunOperation", "onDidRunOperation">>

(* C30: whenever the operations mask is idle, no caller has an execution of run
   between its start and its end: two overlapping runs of one operation never
   leave the mask idle while one of them is still in its body or its refresh. *)
C30_IdleMeansNoRun ==
    IsIdle(operations) => \A p \in Procs : ~InFlight(p)

(* C31: show is idle-respecting: in the step in which a run of Show marks its
   operation started, no operation is marked running, whatever the other
   callers and the other waiters of whenIdle did in between. *)
C31_ShowStartsIdle ==
    [][\A p \in Procs :
          (task[p].pc = "showReady" /\ InFlight(p)' /\ task'[p].op = "Show")
          => IsIdle(operations)]_vars

(* C32: in every reachable state whose lifecycle state is NotAnHgRepository the
   five groups are empty and the sync counts are zero, also while a run that
   passed the repository check before the transition is still in flight and
   finishes its refresh after it. *)
C32_NotARepositoryIsEmpty ==
    state = "NotAnHgRepository" =>
        /\ \A g \in ResourceGroupId : groups[g].resources = <<>>
        /\ syncCounts = [incoming |-> 0, outgoing |-> 0]

----------------------------------------------------------------------------
(* Model.init and the lifecycle state *)

\* the callers of init()
InitProcs == {"p1"}

\* an init() that does not test the state
InitCallNotTesting(p) ==
    /\ task[p].pc = "idle"
    /\ task' = [task EXCEPT ![p].pc = "hgInit"]
    /\ UNCHANGED <<state, groups, operations, resetVars>>

\* init(): nothing is done unless the state is NotAnHgRepository; otherwise the
\* external tool is asked to create a repository
InitCall(p) ==
    /\ task[p].pc = "idle"
    /\ task' = [task EXCEPT ![p].pc = IF state # "NotAnHgRepository" THEN "initReturned"
                                      ELSE "hgInit"]
    /\ UNCHANGED <<state, groups, operations, resetVars>>

\* init(): _hg.init failed, the promise of init rejects
HgInitFail(p) ==
    /\ task[p].pc = "hgInit"
    /\ task' = [task EXCEPT ![p].pc = "initReturned"]
    /\ UNCHANGED <<state, groups, operations, resetVars>>

\* init(): _hg.init answered and status() is called: run(Operation.Status) starts
InitStatus(p) ==
    /\ task[p].pc = "hgInit"
    /\ ~CollapsesInto(p, "Status")
    /\ operations' = Start(operations, Operation.Status)
    /\ task' = [task EXCEPT ![p].op = "Status",
                            ![p].startedSaw = Saw(operations', "Status"),
                            ![p].fired = <<"onRunOperation">>,
                            ![p].pc = IF state = "Idle" THEN "unlock" ELSE "root"]
    /\ UNCHANGED <<state, groups, resetVars>>

\* init(): _hg.init answered and status() finds a status() in flight: init takes
\* the outcome of that call and starts no run
InitCollapsed(p) ==
    /\ task[p].pc = "hgInit"
    /\ CollapsesInto(p, "Status")
    /\ task' = [task EXCEPT ![p].pc = "initReturned"]
    /\ UNCHANGED <<state, groups, operations, resetVars>>

\* the caller takes the outcome of an init() that started no run
InitReturn(p) ==
    /\ task[p].pc = "initReturned"
    /\ task' = [task EXCEPT ![p] = IdleTask]
    /\ UNCHANGED <<state, groups, operations, resetVars>>

\* the steps of init() before its status()
InitSteps(p) ==
    \/ InitCall(p)
    \/ HgInitFail(p)
    \/ InitStatus(p)
    \/ InitCollapsed(p)
    \/ InitReturn(p)

\* the steps of runs of status() and add() any of whose external calls may fail
LifeRun(p) ==
    \/ RootOk(p)
    \/ \E kind \in ErrorKinds : RootFail(p, kind)
    \/ LockFree(p)
    \/ BodyOk(p)
    \/ \E kind \in ErrorKinds : BodyFail(p, kind)
    \/ SummaryOk(p, FALSE)
    \/ \E kind \in ErrorKinds : RefreshFail(p, kind)
    \/ StatusOk(p, <<[path |-> "a.txt", status |-> "M", rename |-> Undefined]>>, <<>>, {})
    \/ RunAfterRefresh(p)
    \/ RunCatch(p)

LifeNext ==
    \/ \E p \in Procs :
          \/ \E op \in {"Status", "Add"} : RunStart(p, op) /\ UNCHANGED otherVars
          \/ LifeRun(p) /\ UNCHANGED otherVars
          \/ Return(p) /\ UNCHANGED otherVars
    \/ \E p \in InitProcs : InitSteps(p) /\ UNCHANGED otherVars

SpecLife == Init /\ [][LifeNext]_vars

\* a step in which the run of caller p leaves assertIdleState with the root found
Discovers(p) == task[p].pc = "root" /\ task'[p].pc = "unlock"

\* a step in which the run of caller p ends with a not-a-repository failure
FailsNotARepository(p) ==
    InFlight(p) /\ task'[p].pc = "done" /\ task'[p].err = "NotAnHgRepository"

(* C33: the lifecycle state starts as Uninitialized and never returns to it; it
   becomes Idle only in a step of assertIdleState that found the repository
   root, and NotAnHgRepository only in a step of run that failed with a
   not-a-repository error; init() called in another state than
   NotAnHgRepository changes nothing of the Model and calls neither the
   external tool nor status(). *)
C33_Lifecycle ==
    /\ state = "Uninitialized"
    /\ [][/\ state # "Uninitialized" => state' # "Uninitialized"
          /\ (state # "Idle" /\ state' = "Idle") => \E p \in Procs : Discovers(p)
          /\ (state # "NotAnHgRepository" /\ state' = "NotAnHgRepository")
             => \E p \in Procs : FailsNotARepository(p)
          /\ \A p \in InitProcs :
                (task[p].pc = "idle" /\ task'[p].pc \in {"hgInit", "initReturned"})
                => IF state = "NotAnHgRepository"
                   THEN task'[p].pc = "hgInit"
                   ELSE /\ task'[p].pc = "initReturned"
                        /\ UNCHANGED <<state, groups, operations, resetVars>>
          /\ \A p \in InitProcs :
                (task[p].pc = "initReturned" /\ task'[p] # task[p])
                => task'[p] = IdleTask /\ UNCHANGED <<state, groups, operations, resetVars>>
      ]_vars

\* an init() called in the state NotAnHgRepository has its status() run find the
\* repository: the state is Idle again, and it was never Uninitialized since
C33_Witness ==
    /\ state = "Idle"
    /\ \E p \in InitProcs : task[p].pc = "done" /\ task[p].err = "none"

----------------------------------------------------------------------------
(* Distinct locations in a group *)

\* no two resources of group g have the same effective location
DistinctLocations(g) ==
    \A i, j \in 1..Len(g.resources) :
        ResourceUri(g.resources[i]) = ResourceUri(g.resources[j]) => i = j

(* C36: no group holds two resources with the same effective location: the
   group that except or intersect makes of a group with pairwise distinct
   locations has pairwise distinct locations, also when the list handed to
   intersect names a location twice, and includesUri(u) is true of it exactly
   when getResource(u) returns a resource. *)
C36_DistinctLocations ==
    (rgOut.state \in {"returned", "intersected"} /\ DistinctLocations(rgG)) =>
        /\ DistinctLocations(rgOut.group)
        /\ \A u \in Uris :
              IncludesUri(rgOut.group, u) <=> GetResource(rgOut.group, u) # NoResource

=============================================================================
